---------------------------- MODULE Spec2Model ----------------------------
(***************************************************************************)
(* Pivot / breakout state machine of the gold signal bot.                  *)
(*                                                                         *)
(* Time is the UTC wall clock in whole minutes since midnight of day 0.    *)
(* Prices are in cents.  A threshold name such as "R2_classique" is the    *)
(* pair <<"R2", "classique">>; name.startswith("R2") is name[1] = "R2".    *)
(* Every operation of the code is an operator from a state record to a     *)
(* state record, so that a handler that calls other handlers is the        *)
(* composition of their operators; an action commits the record that the   *)
(* whole handler leaves behind.                                            *)
(***************************************************************************)
EXTENDS Integers, Sequences, FiniteSets, TLC

\* ------------------------------------------------------------------------
\* Program constants (src/src/config.py and literals of the code)
\* ------------------------------------------------------------------------
BREAKOUT_AMPLITUDE == 200
STABILIZATION_RANGE == 200
TENSION_WINDOW == 30
TENSION_TOUCHES == 3
MAX_DAILY_SWITCHES == 2
ASIA_SESSION_START == 0
ASIA_SESSION_END == 4
EUROPE_SESSION_START == 4
EUROPE_SESSION_END == 13
CLASSIC_CALC_HOUR == 23
ASIA_CALC_HOUR == 4
EUROPE_CALC_HOUR == 13
CALC_MINUTE_OFFSET == 3
HISTORY_MAX == 100
HISTORY_KEEP == 50
RANGE_RETURN_MINUTES == 30
NEUTRAL_WINDOW_HOURS == 2
NEUTRAL_INVALIDATIONS == 2
PRICE_HISTORY_MINUTES == 30
TRACKER_TIMEOUT_MINUTES == 30
TENSION_DISTANCE == 100
MIN_ATTEMPTS == 3
SPEED_THRESHOLD == 3
MIN_SCORE == 500
MINUTES_PER_DAY == 24 * 60

\* PivotType
CLASSIC == "classique"
ASIA == "asie"
EUROPE == "europe"
PivotType == {CLASSIC, ASIA, EUROPE}

\* BreakoutState
NONE == "aucune"
TENSION == "tension"
PARTIAL == "cassure_partielle"
VALIDATED == "cassure_validee"
INVALIDATED == "cassure_invalidee"
NEUTRAL == "neutre"
BreakoutState == {NONE, TENSION, PARTIAL, VALIDATED, INVALIDATED, NEUTRAL}

\* Python None for a timestamp, and for a threshold name
NoTime == -1
NoName == <<>>

\* A state file: absent, present with a text json.load rejects, or present
\* with the JSON object json.load returns (json.dump writes strings, numbers,
\* None, lists and string-keyed dicts only, which json.load gives back equal)
NoFile == [exists |-> FALSE, parsable |-> FALSE, json |-> <<>>]
UnparsableFile == [exists |-> TRUE, parsable |-> FALSE, json |-> <<>>]
JsonFile(state) == [exists |-> TRUE, parsable |-> TRUE, json |-> state]

VARIABLES
    now,                    \* datetime.utcnow(), minutes
    pivot_actif,            \* current_state["pivot_actif"]
    etat_cassure,           \* current_state["etat_cassure"]
    date,                   \* current_state["date"] (day number)
    switches_count,         \* current_state["switches_count"]
    seuil_en_cours,         \* current_state["seuil_en_cours"]
    raison,                 \* current_state["raison"]
    seuil_valide,           \* current_state["seuil_valide"]
    touches_tension,        \* current_state["touches_tension"]
    historique,             \* current_state["historique"]
    seuil_stats,            \* current_state["seuil_stats"]
    in_range_since,         \* current_state["range_validation"]["in_range_since"]
    price_history,          \* BreakoutValidator.price_history
    stabilization_tracker,  \* BreakoutValidator.stabilization_tracker (insertion order)
    cached_pivots,          \* PivotSessionManager.cached_pivots
    last_calculation_times, \* PivotSessionManager.last_calculation_times (keys)
    op,                     \* the operation that ran last
    ret,                    \* what a boolean operation returned
    signal,                 \* status of what the last evaluation cycle returned
    args,                   \* the arguments of the operation that ran last
    timestamp_premier_touch_r1, \* current_state["timestamp_premier_touch_r1"]
    pivot_state_file,       \* the file Config.PIVOT_STATE_FILE
    current_state,          \* StateManager.current_state (the legacy store)
    state_file              \* the file Config.STATE_FILE

vars == <<now, pivot_actif, etat_cassure, date, switches_count, seuil_en_cours,
          raison, seuil_valide, touches_tension, historique, seuil_stats,
          in_range_since, price_history, stabilization_tracker, cached_pivots,
          last_calculation_times, op, ret, signal, args,
          timestamp_premier_touch_r1, pivot_state_file, current_state,
          state_file>>

\* The program state as one record, and the commit of a record
S ==
    [now |-> now, pivot_actif |-> pivot_actif, etat_cassure |-> etat_cassure,
     date |-> date, switches_count |-> switches_count,
     seuil_en_cours |-> seuil_en_cours, raison |-> raison,
     seuil_valide |-> seuil_valide, touches_tension |-> touches_tension,
     historique |-> historique, seuil_stats |-> seuil_stats,
     in_range_since |-> in_range_since, price_history |-> price_history,
     stabilization_tracker |-> stabilization_tracker,
     cached_pivots |-> cached_pivots,
     last_calculation_times |-> last_calculation_times,
     op |-> op, ret |-> ret, signal |-> signal, args |-> args,
     timestamp_premier_touch_r1 |-> timestamp_premier_touch_r1,
     pivot_state_file |-> pivot_state_file,
     current_state |-> current_state, state_file |-> state_file]

Commit(r) ==
    /\ now' = r.now
    /\ pivot_actif' = r.pivot_actif
    /\ etat_cassure' = r.etat_cassure
    /\ date' = r.date
    /\ switches_count' = r.switches_count
    /\ seuil_en_cours' = r.seuil_en_cours
    /\ raison' = r.raison
    /\ seuil_valide' = r.seuil_valide
    /\ touches_tension' = r.touches_tension
    /\ historique' = r.historique
    /\ seuil_stats' = r.seuil_stats
    /\ in_range_since' = r.in_range_since
    /\ price_history' = r.price_history
    /\ stabilization_tracker' = r.stabilization_tracker
    /\ cached_pivots' = r.cached_pivots
    /\ last_calculation_times' = r.last_calculation_times
    /\ op' = r.op
    /\ ret' = r.ret
    /\ signal' = r.signal
    /\ args' = r.args
    /\ timestamp_premier_touch_r1' = r.timestamp_premier_touch_r1
    /\ pivot_state_file' = r.pivot_state_file
    /\ current_state' = r.current_state
    /\ state_file' = r.state_file

\* ------------------------------------------------------------------------
\* Clock and small helpers
\* ------------------------------------------------------------------------
Day(t) == t \div MINUTES_PER_DAY
Hour(t) == (t % MINUTES_PER_DAY) \div 60
Minute(t) == t % 60

Abs(x) == IF x < 0 THEN -x ELSE x

RECURSIVE MaxOf(_)
MaxOf(q) == IF Len(q) = 1 THEN q[1]
            ELSE LET m == MaxOf(Tail(q)) IN IF q[1] > m THEN q[1] ELSE m

RECURSIVE MinOf(_)
MinOf(q) == IF Len(q) = 1 THEN q[1]
            ELSE LET m == MinOf(Tail(q)) IN IF q[1] < m THEN q[1] ELSE m

RECURSIVE SumOf(_)
SumOf(q) == IF q = <<>> THEN 0 ELSE q[1] + SumOf(Tail(q))

\* dict.update(details): the keys of d overwrite those of s
Update(s, d) == [k \in DOMAIN s |-> IF k \in DOMAIN d THEN d[k] ELSE s[k]]

\* ------------------------------------------------------------------------
\* PivotStateManager (src/src/pivot_state_manager.py)
\* ------------------------------------------------------------------------
create_default_state(t) ==
    [pivot_actif |-> CLASSIC, etat_cassure |-> NONE, date |-> Day(t),
     switches_count |-> 0, seuil_en_cours |-> NoName, raison |-> "",
     seuil_valide |-> NoName, touches_tension |-> <<>>, historique |-> <<>>,
     seuil_stats |-> <<>>, in_range_since |-> NoTime,
     timestamp_premier_touch_r1 |-> NoTime]

\* The keys of PivotStateManager.current_state that the model carries
\* (session_en_cours is written at creation and never read)
StateKeys ==
    {"pivot_actif", "etat_cassure", "date", "switches_count", "seuil_en_cours",
     "raison", "seuil_valide", "touches_tension", "historique", "seuil_stats",
     "in_range_since", "timestamp_premier_touch_r1"}

pivot_current_state(s) == [k \in StateKeys |-> s[k]]

required_keys == {"pivot_actif", "etat_cassure", "date", "switches_count", "historique"}

validate_state(state) == required_keys \subseteq DOMAIN state

\* An exception of open or json.load, and a state that fails validation,
\* both end in the default state; a valid state is taken as it is
load_state(s) ==
    LET f == s.pivot_state_file
    IN  IF f.exists /\ f.parsable /\ validate_state(f.json)
        THEN Update(s, f.json)
        ELSE Update(s, create_default_state(s.now))

\* json.dump(self.current_state) into the state file
save_state(s) == [s EXCEPT !.pivot_state_file = JsonFile(pivot_current_state(s))]

\* A faulty variant: the cut keeps the oldest events instead of the newest
add_to_history_keeps_oldest(s, type, to) ==
    LET h == Append(s.historique, [timestamp |-> s.now, type |-> type, to |-> to])
    IN  [s EXCEPT !.historique =
            IF Len(h) > HISTORY_MAX THEN SubSeq(h, 1, HISTORY_KEEP) ELSE h]

add_to_history(s, type, to) ==
    LET h == Append(s.historique, [timestamp |-> s.now, type |-> type, to |-> to])
    IN  [s EXCEPT !.historique =
            IF Len(h) > HISTORY_MAX
            THEN SubSeq(h, Len(h) - HISTORY_KEEP + 1, Len(h))
            ELSE h]

\* A faulty variant: the reset leaves the phase as it is
reset_daily_state_keeps_phase(s) ==
    save_state([s EXCEPT !.date = Day(s.now), !.switches_count = 0,
                         !.pivot_actif = CLASSIC, !.touches_tension = <<>>,
                         !.historique = <<>>])

\* A faulty variant: the reset forgets to store the new date
reset_daily_state_keeps_date(s) ==
    save_state([s EXCEPT !.switches_count = 0, !.pivot_actif = CLASSIC,
                         !.etat_cassure = NONE, !.touches_tension = <<>>,
                         !.historique = <<>>])

reset_daily_state(s) ==
    save_state([s EXCEPT !.date = Day(s.now),
                         !.switches_count = 0,
                         !.pivot_actif = CLASSIC,
                         !.etat_cassure = NONE,
                         !.touches_tension = <<>>,
                         !.historique = <<>>])

\* A faulty variant: the cap compared with <= instead of <
can_switch_pivot_inclusive(s) ==
    LET s1 == IF s.date # Day(s.now) THEN reset_daily_state(s) ELSE s
    IN  [s1 EXCEPT !.ret = s1.switches_count <= MAX_DAILY_SWITCHES]

can_switch_pivot(s) ==
    LET s1 == IF s.date # Day(s.now) THEN reset_daily_state(s) ELSE s
    IN  [s1 EXCEPT !.ret = s1.switches_count < MAX_DAILY_SWITCHES]

switch_to_pivot(s, new_pivot) ==
    LET c == can_switch_pivot(s)
    IN  IF ~c.ret
        THEN c
        ELSE [save_state(add_to_history([c EXCEPT !.pivot_actif = new_pivot,
                                                  !.switches_count = @ + 1,
                                                  !.etat_cassure = NONE],
                                        "pivot_switch", ""))
              EXCEPT !.ret = TRUE]

set_breakout_state(s, state, details) ==
    save_state(add_to_history(Update([s EXCEPT !.etat_cassure = state], details),
                              "breakout_state", state))

\* A faulty variant: the touches older than the window are kept and counted
start_tension_tracking_unpruned(s, threshold_name, price) ==
    LET touches == Append(s.touches_tension, [timestamp |-> s.now,
                                              threshold |-> threshold_name,
                                              price |-> price])
        recent_touches == SelectSeq(touches, LAMBDA t: t.threshold = threshold_name)
        s1 == [s EXCEPT !.touches_tension = touches]
    IN  IF Len(recent_touches) >= TENSION_TOUCHES
        THEN add_to_history(
                 set_breakout_state(s1, TENSION, [seuil_en_cours |-> threshold_name]),
                 "tension_detected", "")
        ELSE s1

start_tension_tracking(s, threshold_name, price) ==
    LET cutoff == s.now - TENSION_WINDOW
        kept == SelectSeq(s.touches_tension, LAMBDA touch: touch.timestamp > cutoff)
        touches == Append(kept, [timestamp |-> s.now,
                                 threshold |-> threshold_name,
                                 price |-> price])
        recent_touches == SelectSeq(touches, LAMBDA t: t.threshold = threshold_name)
        s1 == [s EXCEPT !.touches_tension = touches]
    IN  IF Len(recent_touches) >= TENSION_TOUCHES
        THEN add_to_history(
                 set_breakout_state(s1, TENSION, [seuil_en_cours |-> threshold_name]),
                 "tension_detected", "")
        ELSE s1

start_speed_tracking(s, r1_price) ==
    save_state([s EXCEPT !.timestamp_premier_touch_r1 = s.now])

\* time_diff <= SPEED_THRESHOLD is returned when the price is beyond R2 by
\* more than the amplitude, after the check was added to the history
check_speed_breakout(s, r2_price, current_price) ==
    IF s.timestamp_premier_touch_r1 = NoTime THEN [s EXCEPT !.ret = FALSE]
    ELSE IF current_price > r2_price + BREAKOUT_AMPLITUDE
    THEN [add_to_history(s, "speed_check", "") EXCEPT
              !.ret = (s.now - s.timestamp_premier_touch_r1 <= SPEED_THRESHOLD)]
    ELSE [s EXCEPT !.ret = FALSE]

is_recent_event(s, timestamp, hours) == timestamp > s.now - hours * 60

should_go_neutral(s) ==
    LET recent_invalidations ==
            SelectSeq(s.historique,
                      LAMBDA event: /\ event.type = "breakout_state"
                                    /\ event.to = INVALIDATED
                                    /\ is_recent_event(s, event.timestamp,
                                                       NEUTRAL_WINDOW_HOURS))
    IN  Len(recent_invalidations) >= NEUTRAL_INVALIDATIONS

\* round(x, 1) of x = 100 * validees / tentatives, in tenths of a percent
\* (round half to even; no tie arises below 16 attempts)
Score(validees, tentatives) ==
    LET n == 1000 * validees
        q == n \div tentatives
        r2 == 2 * (n % tentatives)
    IN  IF r2 > tentatives \/ (r2 = tentatives /\ q % 2 = 1) THEN q + 1 ELSE q

NewStats == [tentatives |-> 0, validees |-> 0, invalidees |-> 0, score |-> 0]

track_breakout_attempt(s, threshold_name) ==
    LET old == IF threshold_name \in DOMAIN s.seuil_stats
               THEN s.seuil_stats[threshold_name] ELSE NewStats
        new == [old EXCEPT !.tentatives = @ + 1]
        stats == [n \in DOMAIN s.seuil_stats \cup {threshold_name} |->
                     IF n = threshold_name THEN new ELSE s.seuil_stats[n]]
    IN  save_state(add_to_history([s EXCEPT !.seuil_stats = stats],
                                  "breakout_attempt", ""))

track_breakout_result(s, threshold_name, success) ==
    IF threshold_name \notin DOMAIN s.seuil_stats
    THEN s
    ELSE LET old == s.seuil_stats[threshold_name]
             cnt == IF success THEN [old EXCEPT !.validees = @ + 1]
                               ELSE [old EXCEPT !.invalidees = @ + 1]
             new == IF cnt.tentatives > 0
                    THEN [cnt EXCEPT !.score = Score(cnt.validees, cnt.tentatives)]
                    ELSE cnt
         IN  save_state(add_to_history(
                            [s EXCEPT !.seuil_stats[threshold_name] = new],
                            "breakout_result", ""))

get_threshold_reliability(s, threshold_name) ==
    IF threshold_name \in DOMAIN s.seuil_stats
    THEN s.seuil_stats[threshold_name]
    ELSE NewStats

\* is_threshold_reliable with the benefit of the doubt extended to a level
\* that has exactly min_attempts attempts
is_threshold_reliable_inclusive(s, threshold_name, min_attempts, min_score) ==
    LET stats == get_threshold_reliability(s, threshold_name)
    IN  IF stats.tentatives <= min_attempts THEN TRUE
        ELSE stats.score >= min_score

is_threshold_reliable(s, threshold_name, min_attempts, min_score) ==
    LET stats == get_threshold_reliability(s, threshold_name)
    IN  IF stats.tentatives < min_attempts THEN TRUE
        ELSE stats.score >= min_score

\* r1_value / s1_value: 0 stands for a missing (falsy) value
check_range_return(s, current_price, r1_value, s1_value) ==
    IF r1_value = 0 \/ s1_value = 0
    THEN [s EXCEPT !.ret = FALSE]
    ELSE IF s1_value <= current_price /\ current_price <= r1_value
    THEN IF s.in_range_since = NoTime
         THEN [save_state([s EXCEPT !.in_range_since = s.now]) EXCEPT !.ret = FALSE]
         ELSE [s EXCEPT !.ret = (s.now - s.in_range_since >= RANGE_RETURN_MINUTES)]
    ELSE [save_state([s EXCEPT !.in_range_since = NoTime]) EXCEPT !.ret = FALSE]

\* ------------------------------------------------------------------------
\* StateManager, the legacy store (src/src/state_manager.py).  A threshold
\* name such as "R1" is the tuple <<"R1">>, None the empty tuple.
\* ------------------------------------------------------------------------
default_state == [seuil |-> NoName, compteur |-> 0]

\* Whatever json.load returns becomes the state, with no validation
StateManager_load_state(s) ==
    LET f == s.state_file
    IN  [s EXCEPT !.current_state =
            IF f.exists /\ f.parsable THEN f.json ELSE default_state]

StateManager_save_state(s, threshold_name, counter) ==
    LET state == [seuil |-> threshold_name, compteur |-> counter]
    IN  [s EXCEPT !.state_file = JsonFile(state), !.current_state = state]

\* current_state.get("seuil") and current_state.get("compteur", 0)
get_current_threshold(s) ==
    IF "seuil" \in DOMAIN s.current_state THEN s.current_state.seuil ELSE NoName

get_counter(s) ==
    IF "compteur" \in DOMAIN s.current_state THEN s.current_state.compteur ELSE 0

reset_state(s) == StateManager_save_state(s, NoName, 0)

\* A faulty variant: a new threshold goes on counting from the old counter
increment_counter_keeps_counting(s, threshold_name) ==
    LET new_counter == get_counter(s) + 1
    IN  [StateManager_save_state(s, threshold_name, new_counter)
         EXCEPT !.ret = new_counter]

increment_counter(s, threshold_name) ==
    LET new_counter == IF get_current_threshold(s) = threshold_name
                       THEN get_counter(s) + 1
                       ELSE 1
    IN  [StateManager_save_state(s, threshold_name, new_counter)
         EXCEPT !.ret = new_counter]

\* ------------------------------------------------------------------------
\* PivotSessionManager (src/src/pivot_session_manager.py)
\* ------------------------------------------------------------------------
\* The API's answer: NoData (None), or a bar in cents: a function of the
\* keys it carries, [high, low, close] when complete
NoData == [high |-> 0, low |-> 0, close |-> 0]

\* round(x / 3, 2) of a sum of cents: the nearest cent (a third never ties)
RoundThird(n) == (2 * n + 3) \div 6

Threshold(valeur, type, level, pivot_type) ==
    [valeur |-> valeur, type |-> type, nom |-> <<level, pivot_type>>]

\* The seven levels around a pivot value
PivotLevels(data, pivot_type, pivot) ==
    LET high == data.high
        low == data.low
        r1 == 2 * pivot - low
        r2 == pivot + (high - low)
        r3 == high + 2 * (pivot - low)
        s1 == 2 * pivot - high
        s2 == pivot - (high - low)
        s3 == low - 2 * (high - pivot)
    IN  << Threshold(r3, "resistance", "R3", pivot_type),
           Threshold(r2, "resistance", "R2", pivot_type),
           Threshold(r1, "resistance", "R1", pivot_type),
           Threshold(pivot, "pivot", "Pivot", pivot_type),
           Threshold(s1, "support", "S1", pivot_type),
           Threshold(s2, "support", "S2", pivot_type),
           Threshold(s3, "support", "S3", pivot_type) >>

\* A faulty variant: the pivot is cut to the cent below instead of rounded
calculate_pivot_points_truncated(data, pivot_type) ==
    IF {"high", "low", "close"} \subseteq DOMAIN data
    THEN PivotLevels(data, pivot_type, (data.high + data.low + data.close) \div 3)
    ELSE <<>>

\* A missing key raises KeyError inside the try block: the answer is []
calculate_pivot_points(data, pivot_type) ==
    IF {"high", "low", "close"} \subseteq DOMAIN data
    THEN PivotLevels(data, pivot_type,
                     RoundThird(data.high + data.low + data.close))
    ELSE <<>>

\* (calc_hour, pivot_type) in the order the code tries them
calc_moments ==
    << <<CLASSIC_CALC_HOUR, CLASSIC>>, <<ASIA_CALC_HOUR, ASIA>>,
       <<EUROPE_CALC_HOUR, EUROPE>> >>

\* The profiles due now: the code returns the first one
DueMoments(s) ==
    SelectSeq(calc_moments,
              LAMBDA m: /\ Hour(s.now) = m[1]
                        /\ Minute(s.now) >= CALC_MINUTE_OFFSET
                        /\ <<Day(s.now), m[2]>> \notin s.last_calculation_times)

\* should_calculate_pivots: the profile returned ("" for None); the marker is
\* set by the same call
should_calculate_pivots(s) ==
    IF DueMoments(s) = <<>> THEN "" ELSE DueMoments(s)[1][2]

\* A faulty variant: the computation marker is not written
mark_calculation_forgotten(s, pivot_type) == s

mark_calculation(s, pivot_type) ==
    [s EXCEPT !.last_calculation_times = @ \cup {<<Day(s.now), pivot_type>>}]

\* What calculate_session_pivots returns (<<>> for None and for [])
session_pivots(pivot_type, data) ==
    IF data = NoData \/ DOMAIN data = {} THEN <<>>
    ELSE calculate_pivot_points(data, pivot_type)

\* calculate_session_pivots: no data (None or an empty dict) leaves the cache
\* alone; whatever _calculate_pivot_points answers is cached, [] included.
\* In cached_pivots <<>> stands for None and for []: every reader of the
\* cache tests its truth value.
calculate_session_pivots(s, pivot_type, data) ==
    IF data = NoData \/ DOMAIN data = {}
    THEN s
    ELSE [s EXCEPT !.cached_pivots[pivot_type] =
                       calculate_pivot_points(data, pivot_type)]

\* The quality check of a session's bar: False for no data or a range below
\* the profile's minimum
quality_criteria ==
    (CLASSIC :> [min_range |-> 800]) @@ (ASIA :> [min_range |-> 600])
        @@ (EUROPE :> [min_range |-> 1000])

validate_session_data_quality(pivot_type, ohlc_data) ==
    IF ohlc_data = NoData \/ DOMAIN ohlc_data = {} THEN FALSE
    ELSE ohlc_data.high - ohlc_data.low >= quality_criteria[pivot_type].min_range

get_cached_pivots(s, pivot_type) == s.cached_pivots[pivot_type]

\* ------------------------------------------------------------------------
\* TemporalContextManager (src/src/temporal_context_manager.py)
\* ------------------------------------------------------------------------
get_current_session_name(t) ==
    IF ASIA_SESSION_START <= Hour(t) /\ Hour(t) < ASIA_SESSION_END THEN "asia"
    ELSE IF EUROPE_SESSION_START <= Hour(t) /\ Hour(t) < EUROPE_SESSION_END
         THEN "europe"
         ELSE "us"

\* stabilization_time in minutes, volatility_tolerance in tenths of a percent
session_profiles ==
    [asia   |-> [activity |-> "low", stabilization_time |-> 20,
                 volatility_tolerance |-> 8],
     europe |-> [activity |-> "medium", stabilization_time |-> 15,
                 volatility_tolerance |-> 10],
     us     |-> [activity |-> "high", stabilization_time |-> 10,
                 volatility_tolerance |-> 12]]

get_current_session_profile(t) == session_profiles[get_current_session_name(t)]

get_adapted_stabilization_time(t) ==
    get_current_session_profile(t).stabilization_time

get_adapted_volatility_threshold(t) ==
    get_current_session_profile(t).volatility_tolerance

\* ------------------------------------------------------------------------
\* BreakoutValidator (src/src/breakout_validator.py, session-aware methods)
\* ------------------------------------------------------------------------
add_price_point(s, price) ==
    LET h == Append(s.price_history, [price |-> price, timestamp |-> s.now])
        cutoff == s.now - PRICE_HISTORY_MINUTES
    IN  [s EXCEPT !.price_history = SelectSeq(h, LAMBDA p: p.timestamp > cutoff)]

Prices(points) == [i \in 1..Len(points) |-> points[i].price]

\* (price_range / avg_price) * 100 > threshold, the threshold in tenths
check_volatility(s) ==
    IF Len(s.price_history) < 10 THEN FALSE
    ELSE LET one_hour_ago == s.now - 60
             recent_prices ==
                 Prices(SelectSeq(s.price_history,
                                  LAMBDA p: p.timestamp > one_hour_ago))
         IN  IF Len(recent_prices) < 5 THEN FALSE
             ELSE (MaxOf(recent_prices) - MinOf(recent_prices)) * 1000
                      * Len(recent_prices)
                  > get_adapted_volatility_threshold(s.now) * SumOf(recent_prices)

\* The value of the last threshold whose name starts with `level` (0: none)
RECURSIVE LevelValue(_, _)
LevelValue(thresholds, level) ==
    IF thresholds = <<>> THEN 0
    ELSE LET last == thresholds[Len(thresholds)]
         IN  IF last.nom[1] = level THEN last.valeur
             ELSE LevelValue(SubSeq(thresholds, 1, Len(thresholds) - 1), level)

validator_check_range_return(s, current_price, thresholds) ==
    LET c == check_range_return(s, current_price,
                                LevelValue(thresholds, "R1"),
                                LevelValue(thresholds, "S1"))
    IN  IF c.ret
        THEN [set_breakout_state(c, NEUTRAL, [raison |-> "retour_durable_range"])
              EXCEPT !.signal = "semi_neutral"]
        ELSE [c EXCEPT !.signal = "none"]

\* A threshold broken by more than the amplitude
IsBroken(threshold, current_price) ==
    \/ /\ threshold.nom[1] = "R2"
       /\ current_price > threshold.valeur + BREAKOUT_AMPLITUDE
    \/ /\ threshold.nom[1] = "S2"
       /\ current_price < threshold.valeur - BREAKOUT_AMPLITUDE

\* _check_extreme_breakouts, the version of the loop without the reliability
\* check: the first threshold that is broken
check_extreme_breakouts(s, current_price, thresholds) ==
    LET hits == SelectSeq(thresholds, LAMBDA th: IsBroken(th, current_price))
    IN  IF hits = <<>> THEN <<>>
        ELSE << [threshold |-> hits[1],
                 type |-> IF hits[1].nom[1] = "R2" THEN "resistance" ELSE "support",
                 direction |-> IF hits[1].nom[1] = "R2" THEN "bullish" ELSE "bearish",
                 amplitude |-> Abs(current_price - hits[1].valeur)] >>

\* The breakout the loop returns: the first reliable threshold that is broken
\* (<<>> for None)
check_extreme_breakouts_with_reliability(s, current_price, thresholds) ==
    LET hits == SelectSeq(thresholds,
                    LAMBDA th: /\ is_threshold_reliable(s, th.nom, MIN_ATTEMPTS,
                                                        MIN_SCORE)
                               /\ IsBroken(th, current_price))
    IN  IF hits = <<>> THEN <<>>
        ELSE << [threshold |-> hits[1],
                 type |-> IF hits[1].nom[1] = "R2" THEN "resistance" ELSE "support",
                 direction |-> IF hits[1].nom[1] = "R2" THEN "bullish" ELSE "bearish",
                 amplitude |-> Abs(current_price - hits[1].valeur)] >>

NewTracker(threshold_name, price, breakout, t) ==
    [name |-> threshold_name, start_time |-> t, start_price |-> price,
     direction |-> breakout.direction, broken |-> breakout.threshold.valeur,
     price_points |-> << [price |-> price, timestamp |-> t] >>]

\* stabilization_tracker[threshold_name] = {...}: a known key keeps its place
start_stabilization_tracking(s, threshold_name, price, breakout) ==
    LET tr == s.stabilization_tracker
        new == NewTracker(threshold_name, price, breakout, s.now)
    IN  [s EXCEPT !.stabilization_tracker =
            IF \E i \in 1..Len(tr) : tr[i].name = threshold_name
            THEN [i \in 1..Len(tr) |->
                     IF tr[i].name = threshold_name THEN new ELSE tr[i]]
            ELSE Append(tr, new)]

\* Nothing in src/ calls start_speed_tracking: unless the state file brought
\* a timestamp_premier_touch_r1, check_speed_breakout returns False at once
process_extreme_breakout(s, breakout, current_price) ==
    LET threshold_name == breakout.threshold.nom
        s0 == IF breakout.type = "resistance"
              THEN [check_speed_breakout(s, breakout.threshold.valeur,
                                         current_price) EXCEPT !.ret = s.ret]
              ELSE s
        s1 == start_stabilization_tracking(s0, threshold_name, current_price,
                                           breakout)
    IN  [set_breakout_state(s1, PARTIAL, [seuil_en_cours |-> threshold_name])
         EXCEPT !.signal = "partial"]

\* The loop over the thresholds from index i on; it returns at the first
\* threshold that leaves the phase TENSION
RECURSIVE check_tension_zones(_, _, _, _)
check_tension_zones(s, current_price, thresholds, i) ==
    IF i > Len(thresholds) THEN [s EXCEPT !.signal = "none"]
    ELSE LET th == thresholds[i]
         IN  IF /\ th.nom[1] \in {"R2", "S2"}
                /\ Abs(current_price - th.valeur) <= TENSION_DISTANCE
             THEN LET s1 == start_tension_tracking(s, th.nom, current_price)
                  IN  IF s1.etat_cassure = TENSION
                      THEN [s1 EXCEPT !.signal = "tension"]
                      ELSE check_tension_zones(s1, current_price, thresholds, i + 1)
             ELSE check_tension_zones(s, current_price, thresholds, i + 1)

check_breakout_invalidation(s, current_price, thresholds) ==
    LET r1_value == LevelValue(thresholds, "R1")
        s1_value == LevelValue(thresholds, "S1")
    IN  IF s.etat_cassure \notin {PARTIAL, VALIDATED} THEN s
        ELSE IF /\ r1_value # 0
                /\ s1_value # 0
                /\ s1_value <= current_price
                /\ current_price <= r1_value
        THEN LET s1 == set_breakout_state(s, INVALIDATED,
                                          [raison |-> "retour_range_central"])
             IN  IF should_go_neutral(s1)
                 THEN set_breakout_state(s1, NEUTRAL,
                                         [raison |-> "trop_invalidations"])
                 ELSE s1
        ELSE s

\* The longest run of steps in the direction, as the loop computes it
RECURSIVE ConsecutiveFrom(_, _, _, _, _)
ConsecutiveFrom(prices, direction, i, consecutive, max_consecutive) ==
    IF i > Len(prices) THEN max_consecutive
    ELSE IF \/ direction = "bullish" /\ prices[i] >= prices[i - 1]
            \/ direction = "bearish" /\ prices[i] <= prices[i - 1]
         THEN ConsecutiveFrom(prices, direction, i + 1, consecutive + 1,
                              IF consecutive + 1 > max_consecutive
                              THEN consecutive + 1 ELSE max_consecutive)
         ELSE ConsecutiveFrom(prices, direction, i + 1, 0, max_consecutive)

count_consecutive_direction(prices, direction) ==
    IF Len(prices) < 2 THEN 0 ELSE ConsecutiveFrom(prices, direction, 2, 0, 0)

RemoveTracker(trackers, threshold_name) ==
    SelectSeq(trackers, LAMBDA tr: tr.name # threshold_name)

\* 2 * stabilization_range in cents, adjusted to the session's activity
AllowedRange(activity) ==
    IF activity = "high" THEN 3 * STABILIZATION_RANGE
    ELSE IF activity = "low" THEN (8 * 2 * STABILIZATION_RANGE) \div 10
    ELSE 2 * STABILIZATION_RANGE

MinConsecutive(activity) ==
    IF activity = "high" THEN 2 ELSE IF activity = "low" THEN 4 ELSE 3

\* Whether every criterion of _evaluate_stabilization_with_context is met
IsStabilized(t, tracker, stabilization_time) ==
    LET recent_prices ==
            Prices(SelectSeq(tracker.price_points,
                             LAMBDA p: t - p.timestamp <= stabilization_time))
        activity == get_current_session_profile(t).activity
    IN  /\ t - tracker.start_time >= stabilization_time
        /\ Len(recent_prices) >= 3
        /\ MaxOf(recent_prices) - MinOf(recent_prices) <= AllowedRange(activity)
        \* max_allowed_return = start_price - (start_price - broken) * 0.5
        /\ ~ (/\ tracker.direction = "bullish"
              /\ 2 * MinOf(recent_prices) < tracker.start_price + tracker.broken)
        /\ ~ (/\ tracker.direction = "bearish"
              /\ 2 * MaxOf(recent_prices) > tracker.start_price + tracker.broken)
        /\ count_consecutive_direction(recent_prices, tracker.direction)
               >= MinConsecutive(activity)

\* A faulty variant: the validated tracker is left in the dict
evaluate_stabilization_keeps_tracker(s, tracker, stabilization_time) ==
    IF ~IsStabilized(s.now, tracker, stabilization_time)
    THEN s
    ELSE track_breakout_result(
             set_breakout_state(s, VALIDATED, [seuil_valide |-> tracker.name]),
             tracker.name, TRUE)

\* What a validation does to the state (the signal it returns aside)
evaluate_stabilization_with_context(s, tracker, stabilization_time) ==
    IF ~IsStabilized(s.now, tracker, stabilization_time)
    THEN s
    ELSE LET s1 == set_breakout_state(s, VALIDATED, [seuil_valide |-> tracker.name])
             s2 == track_breakout_result(s1, tracker.name, TRUE)
         IN  [s2 EXCEPT !.stabilization_tracker = RemoveTracker(@, tracker.name)]

cleanup_stabilization_trackers(s) ==
    LET cutoff == s.now - TRACKER_TIMEOUT_MINUTES
    IN  [s EXCEPT !.stabilization_tracker =
                      SelectSeq(@, LAMBDA tr: ~(tr.start_time < cutoff))]

\* The loop `for threshold_name, tracker in self.stabilization_tracker.items()`
\* from position i on, `results` collected so far.  The dict iterator raises
\* RuntimeError ("dictionary changed size during iteration") when it is asked
\* for the next item after the body has deleted a key; the exception leaves
\* check_breakout at once, with the state as the body left it.
RECURSIVE stabilization_loop(_, _, _, _, _)
stabilization_loop(s, current_price, stabilization_time, i, results) ==
    IF i > Len(s.stabilization_tracker)
    THEN [cleanup_stabilization_trackers(s) EXCEPT !.signal =
              IF results = <<>> THEN "none" ELSE results[1]]
    ELSE LET cutoff == s.now - (stabilization_time + 10)
             tracker == [s.stabilization_tracker[i] EXCEPT !.price_points =
                            SelectSeq(Append(@, [price |-> current_price,
                                                 timestamp |-> s.now]),
                                      LAMBDA p: p.timestamp > cutoff)]
             s1 == [s EXCEPT !.stabilization_tracker[i] = tracker]
             s2 == evaluate_stabilization_with_context(s1, tracker,
                                                       stabilization_time)
             found == IF s2.etat_cassure = VALIDATED /\ s2.historique # s1.historique
                      THEN <<"validated">> ELSE <<>>
         IN  IF Len(s2.stabilization_tracker) # Len(s1.stabilization_tracker)
             THEN [s2 EXCEPT !.signal = "error"]
             ELSE stabilization_loop(s2, current_price, stabilization_time,
                                     i + 1, results \o found)

check_stabilization_with_context(s, current_price) ==
    stabilization_loop(s, current_price, get_adapted_stabilization_time(s.now),
                       1, <<>>)

\* A faulty variant: the steps after the one that yields the signal run as
\* well, and the first signal is returned
check_breakout_runs_every_step(s, current_price, thresholds) ==
    LET s0 == add_price_point(s, current_price)
        s1 == validator_check_range_return(s0, current_price, thresholds)
        extreme_breakout ==
            check_extreme_breakouts_with_reliability(s1, current_price, thresholds)
        s2 == IF extreme_breakout # <<>>
              THEN process_extreme_breakout(
                       track_breakout_attempt(s1, extreme_breakout[1].threshold.nom),
                       extreme_breakout[1], current_price)
              ELSE s1
        s3 == check_tension_zones(s2, current_price, thresholds, 1)
        s5 == check_stabilization_with_context(
                  check_breakout_invalidation(s3, current_price, thresholds),
                  current_price)
    IN  [s5 EXCEPT !.signal = IF s1.signal # "none" THEN s1.signal
                              ELSE IF extreme_breakout # <<>> THEN "partial"
                              ELSE IF s3.signal # "none" THEN s3.signal
                              ELSE s5.signal]

check_breakout(s, current_price, thresholds) ==
    LET s0 == add_price_point(s, current_price)
        s1 == validator_check_range_return(s0, current_price, thresholds)
        extreme_breakout ==
            check_extreme_breakouts_with_reliability(s1, current_price, thresholds)
        s3 == check_tension_zones(s1, current_price, thresholds, 1)
    IN  IF s1.signal # "none" THEN s1
        ELSE IF extreme_breakout # <<>>
        THEN process_extreme_breakout(
                 track_breakout_attempt(s1, extreme_breakout[1].threshold.nom),
                 extreme_breakout[1], current_price)
        ELSE IF s3.signal # "none" THEN s3
        ELSE check_stabilization_with_context(
                 check_breakout_invalidation(s3, current_price, thresholds),
                 current_price)

\* ------------------------------------------------------------------------
\* PivotSessionManager: is a switch from one level set to another material
\* ------------------------------------------------------------------------
MIN_MEANINGFUL_DIFF == 500

extract_key_levels(pivots) ==
    [R2 |-> LevelValue(pivots, "R2"), S2 |-> LevelValue(pivots, "S2"),
     Pivot |-> LevelValue(pivots, "Pivot")]

\* A faulty variant: the center is compared with 30% of the old half-width
is_range_included_half_width(new_levels, current_levels) ==
    LET new_range == new_levels.R2 - new_levels.S2
        current_range == current_levels.R2 - current_levels.S2
        twice_center_diff == Abs((new_levels.R2 + new_levels.S2)
                                 - (current_levels.R2 + current_levels.S2))
    IN  IF 10 * new_range < 8 * current_range
        THEN 10 * twice_center_diff < 3 * current_range
        ELSE FALSE

\* new_range < current_range * 0.8 and center_diff < current_range * 0.3,
\* the centers being (R2 + S2) / 2, written without fractions
is_range_included(new_levels, current_levels) ==
    LET new_range == new_levels.R2 - new_levels.S2
        current_range == current_levels.R2 - current_levels.S2
        twice_center_diff == Abs((new_levels.R2 + new_levels.S2)
                                 - (current_levels.R2 + current_levels.S2))
    IN  IF 10 * new_range < 8 * current_range
        THEN 10 * twice_center_diff < 6 * current_range
        ELSE FALSE

is_pivot_switch_meaningful(s, new_pivot_type, current_pivot_type) ==
    LET new_pivots == get_cached_pivots(s, new_pivot_type)
        current_pivots == get_cached_pivots(s, current_pivot_type)
        new_levels == extract_key_levels(new_pivots)
        current_levels == extract_key_levels(current_pivots)
        r2_diff == Abs(new_levels.R2 - current_levels.R2)
        s2_diff == Abs(new_levels.S2 - current_levels.S2)
        pivot_diff == Abs(new_levels.Pivot - current_levels.Pivot)
    IN  IF new_pivots = <<>> \/ current_pivots = <<>> THEN FALSE
        ELSE IF MaxOf(<<r2_diff, s2_diff, pivot_diff>>) < MIN_MEANINGFUL_DIFF
        THEN FALSE
        ELSE IF is_range_included(new_levels, current_levels) THEN FALSE
        ELSE TRUE

\* ------------------------------------------------------------------------
\* EnhancedSignalDetector (src/src/enhanced_signal_detector.py)
\* ------------------------------------------------------------------------
\* `data` is what the API returns for the profile's bar
check_pivot_calculations(s, data) ==
    LET pivot_to_calculate == should_calculate_pivots(s)
        s1 == calculate_session_pivots(mark_calculation(s, pivot_to_calculate),
                                       pivot_to_calculate, data)
    IN  IF pivot_to_calculate = "" THEN s
        ELSE IF /\ session_pivots(pivot_to_calculate, data) # <<>>
                /\ pivot_to_calculate = CLASSIC
        THEN switch_to_pivot(s1, CLASSIC)
        ELSE s1

get_active_thresholds(s) == get_cached_pivots(s, s.pivot_actif)

\* A faulty variant: the result of the volatility check is ignored
volatility_gate_ignored(s) == s

\* Step 3 of detect_signals
volatility_gate(s) ==
    IF check_volatility(s) /\ s.etat_cassure # NEUTRAL
    THEN set_breakout_state(s, NEUTRAL, [raison |-> "volatilite_excessive"])
    ELSE s

is_extreme_threshold(threshold_name) == threshold_name[1] \in {"R2", "S2"}

\* A faulty variant: the validated level need not be R2 or S2
check_pivot_switch_any_level(s, threshold_name) ==
    LET c == can_switch_pivot(s)
        current_hour == Hour(s.now)
    IN  IF ~c.ret THEN c
        ELSE IF /\ ASIA_CALC_HOUR <= current_hour
                /\ current_hour < EUROPE_CALC_HOUR
                /\ c.pivot_actif = CLASSIC
        THEN IF get_cached_pivots(c, ASIA) # <<>>
             THEN switch_to_pivot(c, ASIA) ELSE c
        ELSE IF /\ current_hour >= EUROPE_CALC_HOUR
                /\ c.pivot_actif \in {CLASSIC, ASIA}
        THEN IF get_cached_pivots(c, EUROPE) # <<>>
             THEN switch_to_pivot(c, EUROPE) ELSE c
        ELSE c

check_pivot_switch(s, threshold_name) ==
    LET c == can_switch_pivot(s)
        current_hour == Hour(s.now)
    IN  IF ~c.ret THEN c
        ELSE IF /\ ASIA_CALC_HOUR <= current_hour
                /\ current_hour < EUROPE_CALC_HOUR
                /\ c.pivot_actif = CLASSIC
                /\ is_extreme_threshold(threshold_name)
        THEN IF get_cached_pivots(c, ASIA) # <<>>
             THEN switch_to_pivot(c, ASIA) ELSE c
        ELSE IF /\ current_hour >= EUROPE_CALC_HOUR
                /\ c.pivot_actif \in {CLASSIC, ASIA}
                /\ is_extreme_threshold(threshold_name)
        THEN IF get_cached_pivots(c, EUROPE) # <<>>
             THEN switch_to_pivot(c, EUROPE) ELSE c
        ELSE c

\* A faulty variant: step 4 is missing, the validator runs in NEUTRAL too
detect_signals_unblocked(s, current_price, data) ==
    LET s1 == check_pivot_calculations(s, data)
        active_thresholds == get_active_thresholds(s1)
        s3 == volatility_gate(s1)
        s5 == check_breakout(s3, current_price, active_thresholds)
    IN  IF active_thresholds = <<>> THEN [s1 EXCEPT !.signal = "none"]
        ELSE IF s5.signal = "validated"
        THEN [check_pivot_switch(s5, s5.seuil_valide) EXCEPT !.signal = "validated"]
        ELSE IF s3.etat_cassure = NEUTRAL THEN [s5 EXCEPT !.signal = "blocked"]
        ELSE s5

\* The signal's status is kept in `signal` ("none" for None, "error" for an
\* exception that leaves the method)
detect_signals(s, current_price, data) ==
    LET s1 == check_pivot_calculations(s, data)
        active_thresholds == get_active_thresholds(s1)
        s3 == volatility_gate(s1)
        s5 == check_breakout(s3, current_price, active_thresholds)
    IN  IF active_thresholds = <<>> THEN [s1 EXCEPT !.signal = "none"]
        ELSE IF s3.etat_cassure = NEUTRAL THEN [s3 EXCEPT !.signal = "blocked"]
        ELSE IF s5.signal = "validated"
        THEN [check_pivot_switch(s5, s5.seuil_valide) EXCEPT !.signal = "validated"]
        ELSE s5

get_status_summary(s) == can_switch_pivot(s)

\* ------------------------------------------------------------------------
\* GoldTradingBot (src/main.py)
\* ------------------------------------------------------------------------
\* One cycle with minute data: the status summary is read for every signal;
\* an exception of detect_signals is logged and the cycle ends
process_current_data(s, current_price, data) ==
    LET d == detect_signals(s, current_price, data)
    IN  IF d.signal \in {"none", "error"} THEN d ELSE get_status_summary(d)

\* run_cycle: an exception of should_update_thresholds or of
\* update_automatic_thresholds' callers leaves run_cycle (fault "thresholds",
\* signal "loop_error") before the data is processed; the API may return no
\* minute data (fault "no_data"): process_current_data then returns at once
run_cycle(s, fault, current_price, data) ==
    IF fault = "thresholds" THEN [s EXCEPT !.signal = "loop_error"]
    ELSE IF fault = "no_data" THEN [s EXCEPT !.signal = "none"]
    ELSE process_current_data(s, current_price, data)

\* A faulty variant of the loop: no handler around run_cycle, an exception
\* that leaves it ends the loop
start_after_cycle_unhandled(s) ==
    IF s.signal = "loop_error" THEN "crashed" ELSE "sleep"

\* Where the loop of start() goes after run_cycle: asyncio.sleep(60), after a
\* normal return and in the handler of Exception alike
start_after_cycle(s) == "sleep"

\* ------------------------------------------------------------------------
\* The state after construction, at time t, with no state file on disk
\* ------------------------------------------------------------------------
InitState(t) ==
    [now |-> t, price_history |-> <<>>, stabilization_tracker |-> <<>>,
     cached_pivots |-> [p \in PivotType |-> <<>>],
     last_calculation_times |-> {},
     op |-> "init", ret |-> FALSE, signal |-> "none", args |-> <<>>,
     pivot_state_file |-> NoFile,
     current_state |-> [seuil |-> NoName, compteur |-> 0],
     state_file |-> NoFile]
    @@ create_default_state(t)

Start(r) ==
    /\ now = r.now
    /\ pivot_actif = r.pivot_actif
    /\ etat_cassure = r.etat_cassure
    /\ date = r.date
    /\ switches_count = r.switches_count
    /\ seuil_en_cours = r.seuil_en_cours
    /\ raison = r.raison
    /\ seuil_valide = r.seuil_valide
    /\ touches_tension = r.touches_tension
    /\ historique = r.historique
    /\ seuil_stats = r.seuil_stats
    /\ in_range_since = r.in_range_since
    /\ price_history = r.price_history
    /\ stabilization_tracker = r.stabilization_tracker
    /\ cached_pivots = r.cached_pivots
    /\ last_calculation_times = r.last_calculation_times
    /\ op = r.op
    /\ ret = r.ret
    /\ signal = r.signal
    /\ args = r.args
    /\ timestamp_premier_touch_r1 = r.timestamp_premier_touch_r1
    /\ pivot_state_file = r.pivot_state_file
    /\ current_state = r.current_state
    /\ state_file = r.state_file

\* ------------------------------------------------------------------------
\* Spec: the PivotStateManager driven directly, the clock moved by the
\* environment between calls
\* ------------------------------------------------------------------------
MaxDay == 2
MaxHistory == 4

Init == Start(InitState(0))

SwitchToPivot(new_pivot) ==
    Commit([switch_to_pivot(S, new_pivot) EXCEPT !.op = "switch_to_pivot"])

CanSwitchPivot ==
    Commit([can_switch_pivot(S) EXCEPT !.op = "can_switch_pivot"])

SetBreakoutState(state) ==
    /\ Len(historique) < MaxHistory
    /\ Commit([set_breakout_state(S, state, <<>>) EXCEPT !.op = "set_breakout_state"])

\* The clock reaches the next midnight
NextDay ==
    /\ Day(now) < MaxDay
    /\ Commit([S EXCEPT !.now = (Day(now) + 1) * MINUTES_PER_DAY, !.op = "clock"])

Next ==
    \/ \E new_pivot \in PivotType : SwitchToPivot(new_pivot)
    \/ CanSwitchPivot
    \/ SetBreakoutState(PARTIAL)
    \/ NextDay

Spec == Init /\ [][Next]_vars

\* ------------------------------------------------------------------------
\* Properties of the switch budget
\* ------------------------------------------------------------------------
SwitchEvents == SelectSeq(historique, LAMBDA e: e.type = "pivot_switch")

\* C1: within one UTC day at most MAX_DAILY_SWITCHES calls of switch_to_pivot
\* return True: every successful call logs a pivot_switch event of the stored
\* day, the log holds as many of them as switches_count, and never more than
\* the cap; and a call made with the counter at the cap on the stored day
\* returns False and leaves the active pivot, the counter and the phase as
\* they were.
C1_SwitchBudget ==
    /\ Len(SwitchEvents) = switches_count
    /\ Len(SwitchEvents) <= MAX_DAILY_SWITCHES
    /\ \A i \in 1..Len(SwitchEvents) : Day(SwitchEvents[i].timestamp) = date
    /\ (op = "switch_to_pivot" /\ ret) =>
           /\ historique # <<>>
           /\ historique[Len(historique)].type = "pivot_switch"
           /\ historique[Len(historique)].timestamp = now
    /\ (op = "switch_to_pivot" /\ ~ret) => switches_count = MAX_DAILY_SWITCHES
    /\ \A new_pivot \in PivotType :
           (switches_count = MAX_DAILY_SWITCHES /\ date = Day(now)) =>
               LET r == switch_to_pivot(S, new_pivot)
               IN  /\ ~r.ret
                   /\ r.pivot_actif = pivot_actif
                   /\ r.switches_count = switches_count
                   /\ r.etat_cassure = etat_cassure

\* A third switch refused while a breakout is in progress
C1_Witness ==
    /\ op = "switch_to_pivot"
    /\ ~ret
    /\ switches_count = MAX_DAILY_SWITCHES
    /\ etat_cassure = PARTIAL
    /\ pivot_actif = ASIA

MaxTensionMinute == 45
MaxTouches == 4
TensionSteps == {10, 15}
TouchPrice == 3440 * 100
TouchNames == {<<"R2", CLASSIC>>, <<"S2", CLASSIC>>}

StartTensionTracking(threshold_name) ==
    /\ Len(touches_tension) < MaxTouches
    /\ Commit([start_tension_tracking(S, threshold_name, TouchPrice)
               EXCEPT !.op = "start_tension_tracking"])

AdvanceClock(minutes) ==
    /\ now + minutes <= MaxTensionMinute
    /\ Commit([S EXCEPT !.now = now + minutes, !.op = "clock"])

NextTension ==
    \/ \E threshold_name \in TouchNames : StartTensionTracking(threshold_name)
    \/ \E minutes \in TensionSteps : AdvanceClock(minutes)

SpecTension == Init /\ [][NextTension]_vars

\* The touches of the label younger than the window, before the call
RecentTouches(threshold_name, t) ==
    {i \in 1..Len(touches_tension) :
        /\ touches_tension[i].threshold = threshold_name
        /\ t - touches_tension[i].timestamp < TENSION_WINDOW}

\* C6: a call of start_tension_tracking made in phase NONE leaves the phase
\* TENSION exactly when the label then has TENSION_TOUCHES touches younger
\* than TENSION_WINDOW minutes, the new one included; and after the call no
\* touch as old as the window is kept, so none is ever counted.
C6_TensionEscalation ==
    [][op' = "start_tension_tracking" =>
          LET new == touches_tension'[Len(touches_tension')]
          IN  /\ new.timestamp = now'
              /\ etat_cassure = NONE =>
                     (etat_cassure' = TENSION <=>
                          Cardinality(RecentTouches(new.threshold, now')) + 1
                              >= TENSION_TOUCHES)
              /\ etat_cassure = NONE /\ etat_cassure' # TENSION =>
                     etat_cassure' = NONE
              /\ \A i \in 1..Len(touches_tension') :
                     now' - touches_tension'[i].timestamp < TENSION_WINDOW]_vars

\* The third touch of R2 inside the window, after an older touch has expired
C6_Witness ==
    /\ op = "start_tension_tracking"
    /\ etat_cassure = TENSION
    /\ seuil_en_cours = <<"R2", CLASSIC>>
    /\ now >= TENSION_WINDOW
    /\ Len(touches_tension) = TENSION_TOUCHES
    /\ \A i \in 1..Len(touches_tension) : touches_tension[i].timestamp > 0

\* ------------------------------------------------------------------------
\* SpecRange: check_range_return called once per minute with a price inside
\* or outside [S1, R1]
\* ------------------------------------------------------------------------
MaxRangeMinute == 33
RangeR1 == 3420 * 100
RangeS1 == 3380 * 100
RangePrices == {3400 * 100, 3430 * 100}

CheckRangeReturn(current_price) ==
    /\ now < MaxRangeMinute
    /\ Commit([check_range_return([S EXCEPT !.now = now + 1], current_price,
                                  RangeR1, RangeS1)
               EXCEPT !.op = "check_range_return"])

NextRange == \E current_price \in RangePrices : CheckRangeReturn(current_price)

SpecRange == Init /\ [][NextRange]_vars

\* C7: once check_range_return has returned true for a stay inside [S1, R1],
\* a later call of the same stay does not return true again.
C7_OncePerStay ==
    [][(/\ op = "check_range_return"
        /\ ret
        /\ op' = "check_range_return"
        /\ in_range_since' = in_range_since) => ~ret']_vars

\* The detection returned for the second time in one stay, at minute 31
C7_Witness ==
    /\ op = "check_range_return"
    /\ ret
    /\ in_range_since # NoTime
    /\ now - in_range_since = RANGE_RETURN_MINUTES + 1

\* The part of C7 that holds: no call returns true before the stay has lasted
\* RANGE_RETURN_MINUTES minutes, and a price outside the range ends the stay.
C7_NoEarlyReturn ==
    (op = "check_range_return" /\ ret) =>
        /\ in_range_since # NoTime
        /\ now - in_range_since >= RANGE_RETURN_MINUTES

\* ------------------------------------------------------------------------
\* The bot's cycle (src/main.py run_cycle): the clock has advanced by
\* `minutes` since the last cycle, the API returns the minute close
\* `current_price` and, for a calculation that is due, the bar `data`
\* ------------------------------------------------------------------------
RunCycle(minutes, current_price, data) ==
    \E r \in {process_current_data([S EXCEPT !.now = now + minutes],
                                   current_price, data)} :
        Commit([r EXCEPT !.op = "process_current_data"])

\* ------------------------------------------------------------------------
\* SpecScenario: the classic levels 3400 / 3420 / 3440 / 3380 / 3360 computed
\* at 23:03, then one cycle per minute from 05:00 of the next day (Europe
\* session): 3438, 3443, then ScenarioMinutes minutes at 3442 or 3443
\* ------------------------------------------------------------------------
ScenarioMinutes == session_profiles.europe.stabilization_time
ScenarioBar == [high |-> 3420 * 100, low |-> 3380 * 100, close |-> 3400 * 100]
ScenarioCalc == CLASSIC_CALC_HOUR * 60 + CALC_MINUTE_OFFSET
ScenarioStart == MINUTES_PER_DAY + 5 * 60
ScenarioEnd == ScenarioStart + 1 + ScenarioMinutes
ScenarioR2 == <<"R2", CLASSIC>>

ScenarioPrices(t) ==
    IF t = ScenarioStart THEN {3438 * 100}
    ELSE IF t = ScenarioStart + 1 THEN {3443 * 100}
    ELSE {3442 * 100, 3443 * 100}

InitScenario ==
    Start([process_current_data(InitState(ScenarioCalc), 3400 * 100, ScenarioBar)
           EXCEPT !.now = ScenarioStart - 1, !.op = "init"])

ScenarioCycle ==
    /\ now < ScenarioEnd
    /\ \E current_price \in ScenarioPrices(now + 1) :
           RunCycle(1, current_price, NoData)

NextScenario == ScenarioCycle

SpecScenario == InitScenario /\ [][NextScenario]_vars

\* The prices of the scenario's last ScenarioMinutes minutes
StabilizationPrices ==
    Prices(SelectSeq(price_history, LAMBDA p: p.timestamp > ScenarioStart + 1))

ScenarioDone ==
    /\ now = ScenarioEnd
    /\ count_consecutive_direction(StabilizationPrices, "bullish") >= 3

\* C3: at the end of the scenario the phase is VALIDATED and the R2 level has
\* attempts = 1, validated = 1, score = 100.0.
C3_ScenarioValidated ==
    ScenarioDone =>
        /\ etat_cassure = VALIDATED
        /\ ScenarioR2 \in DOMAIN seuil_stats
        /\ seuil_stats[ScenarioR2].tentatives = 1
        /\ seuil_stats[ScenarioR2].validees = 1
        /\ seuil_stats[ScenarioR2].score = 1000

\* The scenario has ended with the price held at 3443: the breakout was
\* counted on three cycles and the phase is still PARTIAL
C3_Witness ==
    /\ ScenarioDone
    /\ \A i \in 1..Len(StabilizationPrices) : StabilizationPrices[i] = 3443 * 100
    /\ etat_cassure = PARTIAL
    /\ seuil_stats[ScenarioR2].tentatives = 3
    /\ seuil_stats[ScenarioR2].validees = 0

\* The scenario with the price held at 3442 after the breakout: the end state
\* the claim describes, reached on a cycle that ended in the exception
C3_HeldBelowAmplitude ==
    /\ ScenarioDone
    /\ etat_cassure = VALIDATED
    /\ seuil_stats[ScenarioR2].tentatives = 1
    /\ seuil_stats[ScenarioR2].validees = 1
    /\ seuil_stats[ScenarioR2].score = 1000

\* ------------------------------------------------------------------------
\* SpecBot: after the 23:03 calculation, one cycle every BotGap minutes from
\* 05:00 of the next day, the price at 3400 (inside S1-R1), 3441 (within 1$
\* of R2), 3442 (R2 + amplitude) or 3443 (beyond it)
\* ------------------------------------------------------------------------
BotCycles == 7
BotGap == 5
BotPrices == {3400 * 100, 3441 * 100, 3442 * 100, 3443 * 100}
BotEnd == ScenarioStart + (BotCycles - 1) * BotGap

InitBot ==
    Start([process_current_data(InitState(ScenarioCalc), 3400 * 100, ScenarioBar)
           EXCEPT !.now = ScenarioStart - BotGap, !.op = "init"])

BotCycle ==
    /\ now < BotEnd
    /\ \E current_price \in BotPrices : RunCycle(BotGap, current_price, NoData)

NextBot == BotCycle

SpecBot == InitBot /\ [][NextBot]_vars

\* The phase became VALIDATED on the last cycle
ValidatedNow ==
    \E i \in 1..Len(historique) :
        /\ historique[i].type = "breakout_state"
        /\ historique[i].to = VALIDATED
        /\ historique[i].timestamp = now

TrackerCount(threshold_name) ==
    Cardinality({i \in 1..Len(stabilization_tracker) :
                    stabilization_tracker[i].name = threshold_name})

\* C4: the cycle on which a tracker meets every stabilization criterion ends
\* normally: phase VALIDATED, the success recorded, the tracker removed, and
\* check_breakout returns the signal of status 'validated'.
C4_ValidationCompletes ==
    ValidatedNow =>
        /\ etat_cassure = VALIDATED
        /\ seuil_stats[seuil_valide].validees >= 1
        /\ TrackerCount(seuil_valide) = 0
        /\ signal = "validated"

\* A validating cycle: the state is updated and check_breakout has raised
C4_Witness ==
    /\ ValidatedNow
    /\ etat_cassure = VALIDATED
    /\ seuil_stats[seuil_valide].validees = 1
    /\ TrackerCount(seuil_valide) = 0
    /\ signal = "error"

\* C5: the tracker that produced VALIDATED is gone when the cycle ends, and no
\* breakout is validated twice: every tracker belongs to a counted attempt,
\* and for every level the successes plus the tracker still running never
\* exceed the attempts.
C5_ValidatedOnce ==
    /\ ValidatedNow => TrackerCount(seuil_valide) = 0
    /\ \A i \in 1..Len(stabilization_tracker) :
           stabilization_tracker[i].name \in DOMAIN seuil_stats
    /\ \A threshold_name \in DOMAIN seuil_stats :
           /\ TrackerCount(threshold_name) <= 1
           /\ seuil_stats[threshold_name].validees + TrackerCount(threshold_name)
                  <= seuil_stats[threshold_name].tentatives

\* A cycle after the validation: one success, no tracker
C5_Witness ==
    /\ op = "process_current_data"
    /\ \E i \in 1..Len(historique) :
           /\ historique[i].type = "breakout_state"
           /\ historique[i].to = VALIDATED
           /\ historique[i].timestamp < now
    /\ etat_cassure = VALIDATED
    /\ seuil_stats[ScenarioR2].validees = 1
    /\ seuil_stats[ScenarioR2].tentatives = 1
    /\ stabilization_tracker = <<>>

VolCycles == 12
VolPrices == {3400 * 100, 3443 * 100}
VolEnd == ScenarioStart + VolCycles - 1

InitVol ==
    Start([process_current_data(InitState(ScenarioCalc), 3430 * 100, ScenarioBar)
           EXCEPT !.now = ScenarioStart - 1, !.op = "init"])

VolCycle ==
    /\ now < VolEnd
    /\ \E current_price \in VolPrices : RunCycle(1, current_price, NoData)

NextVol == VolCycle

SpecVol == InitVol /\ [][NextVol]_vars

DayCycles == 6
DayGap == 30
DayPrices == {3400 * 100, 3430 * 100, 3443 * 100}
DayEnd == ScenarioCalc + DayCycles * DayGap

InitDay ==
    Start([process_current_data(InitState(ScenarioCalc), 3400 * 100, ScenarioBar)
           EXCEPT !.op = "init"])

DayCycle ==
    /\ now < DayEnd
    /\ \E current_price \in DayPrices : RunCycle(DayGap, current_price, ScenarioBar)

NextDayCycle == DayCycle

\* The main loop runs a cycle, sleeps and runs the next one, for ever: the
\* clock of a cycle that can run does advance
DayClock == now < DayEnd /\ now' = now + DayGap

SpecDayFair == InitDay /\ [][NextDayCycle]_vars /\ WF_now(DayClock)

\* Two cycles of the next day with the price inside S1-R1, half an hour
\* apart, from the current state
QuietCycle(s, t) == process_current_data([s EXCEPT !.now = t], 3400 * 100, ScenarioBar)

NoneReachable ==
    LET t == (Day(now) + 1) * MINUTES_PER_DAY + CALC_MINUTE_OFFSET
        s1 == QuietCycle(S, t)
        s2 == QuietCycle(s1, t + RANGE_RETURN_MINUTES)
    IN  s1.etat_cassure = NONE \/ s2.etat_cassure = NONE

\* C10: no phase is absorbing: every reachable state has a continuation (two
\* cycles of the next day) that ends in phase NONE, and while the loop keeps
\* cycling a NEUTRAL phase entered on the first day is followed by NONE.
C10_NeutralLeaves ==
    /\ []NoneReachable
    /\ (etat_cassure = NEUTRAL /\ Day(now) = Day(ScenarioCalc)) ~> etat_cassure = NONE

\* The first cycle after midnight has reset a NEUTRAL phase
C10_Witness ==
    /\ op = "process_current_data"
    /\ signal = "blocked"
    /\ etat_cassure = NONE
    /\ date = Day(ScenarioCalc) + 1
    /\ historique = <<>>
    /\ raison = "retour_durable_range"

\* ------------------------------------------------------------------------
\* Properties of the daily rollover
\* ------------------------------------------------------------------------
StoreOperations == {"switch_to_pivot", "can_switch_pivot", "set_breakout_state"}

\* C11: the first store operation of a new UTC day, whichever it is, performs
\* the daily reset: the stored date becomes today, the counter restarts (0,
\* or 1 when the operation is itself a successful switch), the log holds at
\* most the operation's own event, and the reliability stats are unchanged.
C11_FirstOperationResets ==
    [][(op' \in StoreOperations /\ date # Day(now')) =>
          /\ date' = Day(now')
          /\ switches_count' = IF op' = "switch_to_pivot" THEN 1 ELSE 0
          /\ Len(historique') <= 1
          /\ seuil_stats' = seuil_stats]_vars

\* set_breakout_state was the first operation of a new day and the state of
\* the day before is still there
C11_Witness ==
    /\ op = "set_breakout_state"
    /\ date # Day(now)
    /\ switches_count = MAX_DAILY_SWITCHES
    /\ pivot_actif # CLASSIC
    /\ etat_cassure = PARTIAL
    /\ Len(historique) > 1

\* The budget check and the switch do perform the reset on a new day
C11_ResetOnBudgetCheck ==
    [][(op' \in {"switch_to_pivot", "can_switch_pivot"} /\ date # Day(now')) =>
          /\ date' = Day(now')
          /\ switches_count' = IF op' = "switch_to_pivot" THEN 1 ELSE 0
          /\ pivot_actif' = CLASSIC \/ op' = "switch_to_pivot"
          /\ etat_cassure' = NONE
          /\ touches_tension' = <<>>
          /\ Len(historique') <= 1
          /\ seuil_stats' = seuil_stats]_vars

\* ------------------------------------------------------------------------
\* SpecStats: attempts and results recorded for R2 and S2 in any order (up
\* to MaxAttempts attempts for R2, MaxOtherAttempts for S2)
\* ------------------------------------------------------------------------
MaxAttempts == 3
MaxOtherAttempts == 1
MaxResults == 2
StatsNames == {<<"R2", "classique">>, <<"S2", "classique">>}

InitStats == Start(InitState(0))

TrackBreakoutAttempt(threshold_name) ==
    /\ get_threshold_reliability(S, threshold_name).tentatives <
           (IF threshold_name = ScenarioR2 THEN MaxAttempts ELSE MaxOtherAttempts)
    /\ Commit([track_breakout_attempt(S, threshold_name) EXCEPT
                   !.op = "track_breakout_attempt", !.args = <<threshold_name>>])

TrackBreakoutResult(threshold_name, success) ==
    /\ LET stats == get_threshold_reliability(S, threshold_name)
       IN  stats.validees + stats.invalidees < MaxResults
    /\ Commit([track_breakout_result(S, threshold_name, success) EXCEPT
                   !.op = "track_breakout_result",
                   !.args = <<threshold_name, success>>])

NextStats ==
    \/ \E threshold_name \in StatsNames : TrackBreakoutAttempt(threshold_name)
    \/ \E threshold_name \in StatsNames, success \in BOOLEAN :
           TrackBreakoutResult(threshold_name, success)

SpecStats == InitStats /\ [][NextStats]_vars

\* C12: for every level with recorded stats the score is
\* validees / tentatives * 100 rounded to one decimal, and 0.0 with no
\* attempt, after any interleaving of attempts and results.
C12_ScoreIsRatio ==
    \A threshold_name \in DOMAIN seuil_stats :
        LET stats == seuil_stats[threshold_name]
        IN  stats.score = IF stats.tentatives = 0 THEN 0
                          ELSE Score(stats.validees, stats.tentatives)

\* An attempt recorded after a success: the score is the one of before
C12_Witness ==
    /\ op = "track_breakout_attempt"
    /\ args = <<ScenarioR2>>
    /\ seuil_stats[ScenarioR2].tentatives = 2
    /\ seuil_stats[ScenarioR2].validees = 1
    /\ seuil_stats[ScenarioR2].score = 1000

\* The score is the rounded ratio right after every recorded result
C12_ScoreAfterResult ==
    (op = "track_breakout_result" /\ args[1] \in DOMAIN seuil_stats) =>
        LET stats == seuil_stats[args[1]]
        IN  stats.score = Score(stats.validees, stats.tentatives)

\* Three attempts, then two successes: 66.7
C12_Example ==
    /\ op = "track_breakout_result"
    /\ ScenarioR2 \in DOMAIN seuil_stats
    /\ seuil_stats[ScenarioR2].tentatives = 3
    /\ seuil_stats[ScenarioR2].validees = 2
    /\ seuil_stats[ScenarioR2].score = 667

\* ------------------------------------------------------------------------
\* SpecReliable: is_threshold_reliable asked about R2 and S2 with chosen
\* minimums, in a store that holds no stats or the stats of R2 after up to
\* ReliableAttempts attempts all followed by their result
\* ------------------------------------------------------------------------
ReliableAttempts == 5
MinAttemptsArgs == {1, MIN_ATTEMPTS, ReliableAttempts}
MinScoreArgs == {300, MIN_SCORE, 667}

InitReliable ==
    \/ Start(InitState(0))
    \/ \E tentatives \in 0..ReliableAttempts : \E validees \in 0..tentatives :
           Start([InitState(0) EXCEPT !.seuil_stats =
                     (ScenarioR2 :> [tentatives |-> tentatives,
                                     validees |-> validees,
                                     invalidees |-> tentatives - validees,
                                     score |-> IF tentatives = 0 THEN 0
                                               ELSE Score(validees, tentatives)])])

IsThresholdReliable(threshold_name, min_attempts, min_score) ==
    Commit([S EXCEPT !.ret = is_threshold_reliable(S, threshold_name,
                                                   min_attempts, min_score),
                     !.op = "is_threshold_reliable",
                     !.args = <<threshold_name, min_attempts, min_score>>])

NextReliable ==
    \E threshold_name \in StatsNames, min_attempts \in MinAttemptsArgs,
       min_score \in MinScoreArgs :
        IsThresholdReliable(threshold_name, min_attempts, min_score)

SpecReliable == InitReliable /\ [][NextReliable]_vars

\* C13: is_threshold_reliable returns true whenever the level has fewer than
\* min_attempts attempts recorded (a level with no stats included), and
\* otherwise returns true exactly when the level's score is at least
\* min_score.
C13_BenefitOfDoubt ==
    op = "is_threshold_reliable" =>
        LET threshold_name == args[1]
            min_attempts == args[2]
            min_score == args[3]
        IN  /\ threshold_name \notin DOMAIN seuil_stats => ret
            /\ threshold_name \in DOMAIN seuil_stats =>
                   /\ seuil_stats[threshold_name].tentatives < min_attempts => ret
                   /\ seuil_stats[threshold_name].tentatives >= min_attempts =>
                          (ret <=> seuil_stats[threshold_name].score >= min_score)

\* Five attempts, two successes (40.0): not reliable at the default minimums
C13_Witness ==
    /\ op = "is_threshold_reliable"
    /\ args = <<ScenarioR2, MIN_ATTEMPTS, MIN_SCORE>>
    /\ ScenarioR2 \in DOMAIN seuil_stats
    /\ seuil_stats[ScenarioR2].tentatives = 5
    /\ seuil_stats[ScenarioR2].score = 400
    /\ ~ret

\* ------------------------------------------------------------------------
\* SpecSwitch: _check_pivot_switch called for a validated level at any hour
\* from 03:00 of one day to 14:00 of the next, the classic levels cached
\* from the 3420 / 3380 / 3400 bar and the asia and europe levels absent or
\* cached from the same bar, a bar 10$ higher or a narrow bar inside it
\* ------------------------------------------------------------------------
SwitchBars ==
    { NoData, ScenarioBar,
      [high |-> 3430 * 100, low |-> 3390 * 100, close |-> 3410 * 100],
      [high |-> 3405 * 100, low |-> 3395 * 100, close |-> 3400 * 100] }
SwitchLevels == {"R1", "R2", "S2"}
SwitchStart == (ASIA_CALC_HOUR - 1) * 60
SwitchEnd == MINUTES_PER_DAY + (EUROPE_CALC_HOUR + 1) * 60

InitSwitch ==
    \E asia_bar \in SwitchBars, europe_bar \in SwitchBars :
        Start(calculate_session_pivots(
                  calculate_session_pivots(
                      calculate_session_pivots(InitState(SwitchStart),
                                               CLASSIC, ScenarioBar),
                      ASIA, asia_bar),
                  EUROPE, europe_bar))

CheckPivotSwitch(level) ==
    LET threshold_name == <<level, pivot_actif>>
    IN  Commit([check_pivot_switch(S, threshold_name) EXCEPT
                    !.op = "check_pivot_switch", !.args = <<threshold_name>>])

SwitchClock ==
    /\ now < SwitchEnd
    /\ Commit([S EXCEPT !.now = now + 60, !.op = "clock"])

NextSwitch ==
    \/ \E level \in SwitchLevels : CheckPivotSwitch(level)
    \/ SwitchClock

SpecSwitch == InitSwitch /\ [][NextSwitch]_vars

\* The active set the call starts from: the one left by the daily reset when
\* the call is the first budget check of a new day
SwitchedFrom == can_switch_pivot([S EXCEPT !.now = now']).pivot_actif

\* C14: a switch made for a validated level is made only if the materiality
\* check between the target set and the active set passes.
C14_SwitchIsMaterial ==
    [][(op' = "check_pivot_switch" /\ pivot_actif' # SwitchedFrom) =>
          is_pivot_switch_meaningful(S, pivot_actif', SwitchedFrom)]_vars

\* A switch to asia levels that are the classic levels
C14_Witness ==
    /\ op = "check_pivot_switch"
    /\ pivot_actif = ASIA
    /\ switches_count = 1
    /\ historique[Len(historique)].type = "pivot_switch"
    /\ historique[Len(historique)].timestamp = now
    /\ ~is_pivot_switch_meaningful(S, ASIA, CLASSIC)

CalcDays == 2
CalcSteps == {1, 60}
CalcStart == CLASSIC_CALC_HOUR * 60 - 2
CalcEnd == CalcStart + CalcDays * MINUTES_PER_DAY
CalcHour(pivot_type) ==
    IF pivot_type = CLASSIC THEN CLASSIC_CALC_HOUR
    ELSE IF pivot_type = ASIA THEN ASIA_CALC_HOUR ELSE EUROPE_CALC_HOUR

InitCalc == Start([InitState(CalcStart) EXCEPT !.ret = ""])

\* The call returns a profile ("" for None) and marks it in the same call
ShouldCalculatePivots ==
    LET pivot_type == should_calculate_pivots(S)
        marked == IF pivot_type = "" THEN S ELSE mark_calculation(S, pivot_type)
    IN  Commit([marked EXCEPT !.ret = pivot_type,
                              !.op = "should_calculate_pivots"])

CalcClock ==
    \E minutes \in CalcSteps :
        /\ now + minutes <= CalcEnd
        /\ Commit([S EXCEPT !.now = now + minutes, !.op = "clock"])

NextCalc == ShouldCalculatePivots \/ CalcClock

SpecCalc == InitCalc /\ [][NextCalc]_vars

PivotBars ==
    { NoData, ScenarioBar,
      [high |-> 3405 * 100, low |-> 3398 * 100, close |-> 3400 * 100],
      [high |-> 3403 * 100, low |-> 3398 * 100, close |-> 3400 * 100],
      [high |-> 3380 * 100, low |-> 3420 * 100, close |-> 3400 * 100],
      [high |-> 3420 * 100, low |-> 3380 * 100] }

InitPivots == Start(InitState(0))

CalculateSessionPivots(pivot_type, data) ==
    Commit([calculate_session_pivots(S, pivot_type, data) EXCEPT
                !.op = "calculate_session_pivots",
                !.args = <<pivot_type, data>>])

NextPivots ==
    \E pivot_type \in PivotType, data \in PivotBars :
        CalculateSessionPivots(pivot_type, data)

SpecPivots == InitPivots /\ [][NextPivots]_vars

CompleteBar(data) == DOMAIN data = {"high", "low", "close"} /\ data # NoData

\* C17: a bar whose high-low range is below the profile's minimum (classic
\* 8, asia 6, europe 10) is rejected: the profile's cached level set is left
\* exactly as it was.
C17_ThinRangeRejected ==
    [][(/\ op' = "calculate_session_pivots"
        /\ CompleteBar(args'[2])
        /\ args'[2].high >= args'[2].low
        /\ ~validate_session_data_quality(args'[1], args'[2])) =>
           cached_pivots' = cached_pivots]_vars

\* Europe levels computed from a 7$ bar replaced the ones of the 40$ bar
C17_Witness ==
    /\ op = "calculate_session_pivots"
    /\ args[1] = EUROPE
    /\ args[2].high - args[2].low = 700
    /\ cached_pivots[EUROPE] = calculate_pivot_points(args[2], EUROPE)
    /\ cached_pivots[CLASSIC] = calculate_pivot_points(ScenarioBar, CLASSIC)

\* C18: the calculation yields no levels when high < low or when one of
\* high, low, close is missing, and then the profile's cached level set is
\* unchanged: it never becomes an empty or partial set.
C18_BadBarNotCached ==
    [][(/\ op' = "calculate_session_pivots"
        /\ args'[2] # NoData
        /\ \/ ~CompleteBar(args'[2])
           \/ args'[2].high < args'[2].low) =>
           /\ calculate_pivot_points(args'[2], args'[1]) = <<>>
           /\ cached_pivots' = cached_pivots]_vars

\* Levels computed from a bar with high below low are in the cache
C18_Witness ==
    /\ op = "calculate_session_pivots"
    /\ CompleteBar(args[2])
    /\ args[2].high < args[2].low
    /\ Len(cached_pivots[args[1]]) = 7
    /\ cached_pivots[args[1]] = calculate_pivot_points(args[2], args[1])

\* What C18 expects of a bar without its close: cached levels are not
\* replaced by the empty list. The code does replace them (refuted).
C18_PartialBarKeepsLevels ==
    [][(/\ op' = "calculate_session_pivots"
        /\ args'[2] # NoData
        /\ ~CompleteBar(args'[2])
        /\ cached_pivots[args'[1]] # <<>>) =>
           cached_pivots'[args'[1]] # <<>>]_vars

\* No data at all leaves the cache alone
C18_NoDataKeepsCache ==
    [][(op' = "calculate_session_pivots" /\ args'[2] = NoData) =>
           cached_pivots' = cached_pivots]_vars


\* ------------------------------------------------------------------------
\* The pivot arithmetic as a function of the bar
\* ------------------------------------------------------------------------
\* Bars in cents around 1980.00: neighbouring cents make every remainder of
\* the sum by three happen; 1990.00 and 2000.00 give the test's bar
MaxCents == 2
LevelPrices == {1980 * 100 + k : k \in 0..MaxCents} \cup {1990 * 100, 2000 * 100}
LevelBars == [high : LevelPrices, low : LevelPrices, close : LevelPrices]
TestBar == [high |-> 2000 * 100, low |-> 1980 * 100, close |-> 1990 * 100]

InitLevels ==
    \E data \in LevelBars :
        Start([InitState(0) EXCEPT !.args = <<CLASSIC, data>>, !.ret = <<>>])

CalculatePivotPoints(pivot_type) ==
    Commit([S EXCEPT !.op = "calculate_pivot_points",
                     !.args = <<pivot_type, args[2]>>,
                     !.ret = calculate_pivot_points(args[2], pivot_type)])

NextLevels == \E pivot_type \in PivotType : CalculatePivotPoints(pivot_type)

SpecLevels == InitLevels /\ [][NextLevels]_vars

LevelsOfType(thresholds, type) ==
    {i \in 1..Len(thresholds) : thresholds[i].type = type}

\* Seven levels, the pivot the nearest cent to (H+L+C)/3, S1 <= Pivot <= R1
LevelsWellFormed(data, thresholds) ==
    /\ Len(thresholds) = 7
    /\ Cardinality(LevelsOfType(thresholds, "resistance")) = 3
    /\ Cardinality(LevelsOfType(thresholds, "pivot")) = 1
    /\ Cardinality(LevelsOfType(thresholds, "support")) = 3
    /\ Abs(3 * LevelValue(thresholds, "Pivot")
           - (data.high + data.low + data.close)) <= 1
    /\ LevelValue(thresholds, "S1") <= LevelValue(thresholds, "Pivot")
    /\ LevelValue(thresholds, "Pivot") <= LevelValue(thresholds, "R1")

Computed == op = "calculate_pivot_points"

\* C19 (as stated): for every bar with high >= low the seven levels are
\* produced (3 resistances, 1 pivot, 3 supports), the pivot is (H+L+C)/3
\* rounded to the cent, and S1 <= Pivot <= R1.
C19_LevelsAnyClose ==
    Computed /\ args[2].high >= args[2].low
        => LevelsWellFormed(args[2], ret)

\* C19 (amended): the same for every bar with high >= low whose close lies
\* between low and high; the bar 2000/1980/1990 gives Pivot 1990.00,
\* R1 2000.00 and S1 1980.00.
C19_LevelsCloseInRange ==
    Computed /\ args[2].high >= args[2].low
             /\ args[2].low <= args[2].close /\ args[2].close <= args[2].high
        => /\ LevelsWellFormed(args[2], ret)
           /\ args[2] = TestBar =>
                /\ LevelValue(ret, "Pivot") = 1990 * 100
                /\ LevelValue(ret, "R1") = 2000 * 100
                /\ LevelValue(ret, "S1") = 1980 * 100

\* The levels of a bar whose sum is not a multiple of three cents
C19_Witness ==
    /\ Computed
    /\ args[2] = [high |-> 1980 * 100 + 2, low |-> 1980 * 100, close |-> 1980 * 100]
    /\ LevelValue(ret, "Pivot") = 1980 * 100 + 1
    /\ LevelValue(ret, "S1") = 1980 * 100
    /\ LevelValue(ret, "R1") = 1980 * 100 + 2

\* A close above the high puts S1 above the pivot
C19_CloseAboveHigh ==
    /\ Computed
    /\ args[2] = [high |-> 1980 * 100, low |-> 1980 * 100, close |-> 2000 * 100]
    /\ LevelValue(ret, "Pivot") = 198667
    /\ LevelValue(ret, "S1") = 199334


\* ------------------------------------------------------------------------
\* Materiality of a switch as a function of the two cached level sets
\* ------------------------------------------------------------------------
\* The classic set comes from the scenario's bar (R2 - S2 = 80.00); the
\* asia set from a bar of another width whose middle is moved: by 4.99 and
\* 5.00 (the minimum difference) and by steps of 4.00 up to 24.00 (30% of
\* the classic range; 12.00 is 30% of its half-width)
MaxShift == 6
ShiftStep == 4 * 100
MeaningShifts ==
    {0, MIN_MEANINGFUL_DIFF - 1, MIN_MEANINGFUL_DIFF}
        \cup {ShiftStep * k : k \in 0..MaxShift}
\* high - low of the asia bar: half, 79%, 80%, 100% and 120% of the classic one
MeaningWidths == {20 * 100, 32 * 100 - 2, 32 * 100, 40 * 100, 48 * 100}

MeaningBar(width, shift) ==
    LET middle == ScenarioBar.close + shift
    IN  [high |-> middle + width \div 2, low |-> middle - width \div 2,
         close |-> middle]

MeaningBars ==
    {MeaningBar(width, sign * shift) :
        width \in MeaningWidths, shift \in MeaningShifts, sign \in {-1, 1}}

InitMeaning ==
    \E classic \in {NoData, ScenarioBar}, asia \in {NoData} \cup MeaningBars :
        Start(calculate_session_pivots(
                  calculate_session_pivots(InitState(0), CLASSIC, classic),
                  ASIA, asia))

IsPivotSwitchMeaningful(new_pivot_type, current_pivot_type) ==
    Commit([S EXCEPT !.op = "is_pivot_switch_meaningful",
                     !.args = <<new_pivot_type, current_pivot_type>>,
                     !.ret = is_pivot_switch_meaningful(S, new_pivot_type,
                                                        current_pivot_type)])

NextMeaning ==
    \E new_pivot_type \in PivotType, current_pivot_type \in PivotType :
        IsPivotSwitchMeaningful(new_pivot_type, current_pivot_type)

SpecMeaning == InitMeaning /\ [][NextMeaning]_vars

Asked == op = "is_pivot_switch_meaningful"
NewSet == cached_pivots[args[1]]
OldSet == cached_pivots[args[2]]
BothCached == NewSet # <<>> /\ OldSet # <<>>
LevelDiff(level) == Abs(LevelValue(NewSet, level) - LevelValue(OldSet, level))
SomeLevelMoved == \E level \in {"R2", "S2", "Pivot"} : LevelDiff(level) >= 5 * 100
NewRange == LevelValue(NewSet, "R2") - LevelValue(NewSet, "S2")
OldRange == LevelValue(OldSet, "R2") - LevelValue(OldSet, "S2")
\* twice the distance between the two centers (R2 + S2) / 2
TwiceCenterDistance ==
    Abs((LevelValue(NewSet, "R2") + LevelValue(NewSet, "S2"))
        - (LevelValue(OldSet, "R2") + LevelValue(OldSet, "S2")))

\* C20 (as stated): the answer is true iff both sets are cached, one of the
\* differences on R2, S2 and Pivot is >= 5, and not (the new range is at
\* least 20% narrower than the old one and its center lies within 30% of
\* the old range's half-width from the old center).
C20_MeaningfulHalfWidth ==
    Asked =>
        (ret <=> /\ BothCached
                 /\ SomeLevelMoved
                 /\ ~(/\ 10 * NewRange <= 8 * OldRange
                      /\ 20 * TwiceCenterDistance <= 6 * OldRange))

\* C20 (amended): the answer is true iff both sets are cached, one of the
\* differences on R2, S2 and Pivot is >= 5, and not (the new range is below
\* 80% of the old range and its center lies less than 30% of the old range
\* from the old center).
C20_MeaningfulFullRange ==
    Asked =>
        (ret <=> /\ BothCached
                 /\ SomeLevelMoved
                 /\ ~(/\ 10 * NewRange < 8 * OldRange
                      /\ 10 * TwiceCenterDistance < 6 * OldRange))

\* A half-width asia set 16.00 above the classic one (20% of the classic
\* range, 40% of its half-width) is refused as included
C20_Witness ==
    /\ Asked /\ args = <<ASIA, CLASSIC>> /\ BothCached
    /\ 2 * NewRange = OldRange
    /\ TwiceCenterDistance = 2 * 16 * 100
    /\ ~ret

\* An asia set exactly 20% narrower with the same center is accepted
C20_ExactlyEightyPercent ==
    /\ Asked /\ args = <<ASIA, CLASSIC>> /\ BothCached
    /\ 10 * NewRange = 8 * OldRange
    /\ TwiceCenterDistance = 0
    /\ ret


\* ------------------------------------------------------------------------
\* SpecStore: every mutating operation of the PivotStateManager called
\* directly, with the state file it writes
\* ------------------------------------------------------------------------
StoreHistory == 3
StoreTouches == 3
StoreMinutes == 4
StoreR1 == 3410 * 100
StoreS1 == 3390 * 100
StoreR2 == 3420 * 100
StorePrices == {3400 * 100, 3423 * 100}

InitStore == Start(InitState(0))

Room == Len(historique) < StoreHistory /\ Len(touches_tension) < StoreTouches

StoreSwitchToPivot(new_pivot) ==
    Room /\ Commit([switch_to_pivot(S, new_pivot) EXCEPT
                        !.op = "switch_to_pivot"])

StoreSetBreakoutState(state) ==
    Room /\ Commit([set_breakout_state(S, state, <<>>) EXCEPT
                        !.op = "set_breakout_state"])

StoreStartTensionTracking(threshold_name, price) ==
    Room /\ Commit([start_tension_tracking(S, threshold_name, price) EXCEPT
                        !.op = "start_tension_tracking"])

StartSpeedTracking(r1_price) ==
    Room /\ Commit([start_speed_tracking(S, r1_price) EXCEPT
                        !.op = "start_speed_tracking"])

CheckSpeedBreakout(r2_price, current_price) ==
    Room /\ Commit([check_speed_breakout(S, r2_price, current_price) EXCEPT
                        !.op = "check_speed_breakout"])

StoreTrackBreakoutAttempt(threshold_name) ==
    Room /\ Commit([track_breakout_attempt(S, threshold_name) EXCEPT
                        !.op = "track_breakout_attempt"])

StoreTrackBreakoutResult(threshold_name, success) ==
    Room /\ Commit([track_breakout_result(S, threshold_name, success) EXCEPT
                        !.op = "track_breakout_result"])

StoreCheckRangeReturn(current_price) ==
    Room /\ Commit([check_range_return(S, current_price, StoreR1, StoreS1) EXCEPT
                        !.op = "check_range_return"])

StoreClock ==
    /\ now < StoreMinutes
    /\ Commit([S EXCEPT !.now = now + StoreMinutes, !.op = "clock"])

NextStore ==
    \/ StoreSwitchToPivot(ASIA)
    \/ StoreSetBreakoutState(PARTIAL)
    \/ StoreStartTensionTracking(ScenarioR2, StoreR2)
    \/ StartSpeedTracking(StoreR1)
    \/ \E current_price \in StorePrices : CheckSpeedBreakout(StoreR2, current_price)
    \/ StoreTrackBreakoutAttempt(ScenarioR2)
    \/ \E success \in BOOLEAN : StoreTrackBreakoutResult(ScenarioR2, success)
    \/ \E current_price \in StorePrices : StoreCheckRangeReturn(current_price)
    \/ StoreClock

SpecStore == InitStore /\ [][NextStore]_vars

StoreMutators ==
    {"switch_to_pivot", "set_breakout_state", "start_tension_tracking",
     "start_speed_tracking", "check_speed_breakout", "track_breakout_attempt",
     "track_breakout_result", "check_range_return"}

Flushed == pivot_state_file = JsonFile(pivot_current_state(S))

\* C21: every state-store operation that changes the in-memory state leaves
\* the state file equal to the in-memory state when it returns.
C21_MutationsFlushed ==
    [][(/\ op' \in StoreMutators
        /\ pivot_current_state(S)' # pivot_current_state(S)) => Flushed']_vars

\* A first touch is in memory and no state file was ever written
C21_Witness ==
    /\ op = "start_tension_tracking"
    /\ Len(touches_tension) = 1
    /\ pivot_state_file = NoFile

\* Apart from start_tension_tracking and check_speed_breakout, an operation
\* that changes the in-memory state leaves the file equal to it
C21_OthersFlushed ==
    [][(/\ op' \in StoreMutators \ {"start_tension_tracking", "check_speed_breakout"}
        /\ pivot_current_state(S)' # pivot_current_state(S)) => Flushed']_vars

\* The third touch saves the phase TENSION and then adds a history event
\* that the file does not hold
C21_TensionEventUnsaved ==
    /\ op = "start_tension_tracking"
    /\ etat_cassure = TENSION
    /\ pivot_state_file.exists
    /\ pivot_state_file.json.etat_cassure = TENSION
    /\ Len(pivot_state_file.json.historique) + 1 = Len(historique)

\* A speed check is in the history in memory and not in the file
C21_SpeedCheckUnsaved ==
    /\ op = "check_speed_breakout"
    /\ historique # <<>>
    /\ historique[Len(historique)].type = "speed_check"
    /\ ~Flushed


\* ------------------------------------------------------------------------
\* SpecLoad: the two stores constructed over the files found on disk
\* ------------------------------------------------------------------------
\* A state the pivot store saved earlier
SavedState ==
    [create_default_state(0) EXCEPT !.pivot_actif = ASIA, !.switches_count = 1,
                                    !.etat_cassure = PARTIAL]

Without(state, key) == [k \in DOMAIN state \ {key} |-> state[k]]

\* No file, a text that is not JSON, {}, a saved state with one required key
\* removed, and saved states
PivotFiles ==
    {NoFile, UnparsableFile, JsonFile(<<>>)}
        \cup {JsonFile(Without(SavedState, key)) : key \in required_keys}
        \cup {JsonFile(SavedState), JsonFile(create_default_state(0))}

\* No file, a text that is not JSON, {}, a state with one key removed, and
\* a saved state
LegacyFiles ==
    {NoFile, UnparsableFile, JsonFile(<<>>),
     JsonFile([seuil |-> <<"R1">>]), JsonFile([compteur |-> 2]),
     JsonFile([seuil |-> <<"R1">>, compteur |-> 2])}

LoadTimes == {0, MINUTES_PER_DAY + 5 * 60}

InitLoad ==
    \E t \in LoadTimes, pf \in PivotFiles, lf \in LegacyFiles :
        Start([InitState(t) EXCEPT !.pivot_state_file = pf, !.state_file = lf,
                                   !.op = "files"])

\* PivotStateManager.__init__
LoadState == Commit([load_state(S) EXCEPT !.op = "load_state"])

\* StateManager.__init__
StateManagerLoadState ==
    Commit([StateManager_load_state(S) EXCEPT !.op = "StateManager_load_state"])

NextLoad == LoadState \/ StateManagerLoadState

SpecLoad == InitLoad /\ [][NextLoad]_vars

PivotFileUsable ==
    /\ pivot_state_file.exists
    /\ pivot_state_file.parsable
    /\ required_keys \subseteq DOMAIN pivot_state_file.json

LegacyFileUsable ==
    /\ state_file.exists
    /\ state_file.parsable
    /\ {"seuil", "compteur"} \subseteq DOMAIN state_file.json

\* C22: constructed over a missing, unparsable or structurally invalid file,
\* the pivot store holds the default state (pivot classic, phase NONE, no
\* switches, empty history) and the legacy store holds seuil None, compteur 0.
C22_InvalidFileGivesDefault ==
    /\ op = "load_state" /\ ~PivotFileUsable
           => pivot_current_state(S) = create_default_state(now)
    /\ op = "StateManager_load_state" /\ ~LegacyFileUsable
           => get_current_threshold(S) = NoName /\ get_counter(S) = 0

\* The legacy store constructed over a file that lacks the counter holds the
\* file's content
C22_Witness ==
    /\ op = "StateManager_load_state"
    /\ state_file = JsonFile([seuil |-> <<"R1">>])
    /\ current_state = [seuil |-> <<"R1">>]
    /\ get_current_threshold(S) = <<"R1">>

\* The pivot store's half of C22 taken alone
C22_PivotStoreDefault ==
    op = "load_state" /\ ~PivotFileUsable
        => pivot_current_state(S) = create_default_state(now)

\* The legacy store's half for a missing or unparsable file
C22_LegacyUnreadableDefault ==
    op = "StateManager_load_state" /\ ~(state_file.exists /\ state_file.parsable)
        => get_current_threshold(S) = NoName /\ get_counter(S) = 0

\* A usable pivot file is taken as it is
C22_PivotStoreLoads ==
    /\ op = "load_state" /\ pivot_state_file = JsonFile(SavedState)
    /\ pivot_actif = ASIA /\ switches_count = 1 /\ etat_cassure = PARTIAL


\* ------------------------------------------------------------------------
\* SpecLegacy: the legacy StateManager driven directly from a fresh start;
\* args is the list of the calls made so far, a threshold name for
\* increment_counter and None for reset_state
\* ------------------------------------------------------------------------
MaxCalls == 4
LegacyNames == {<<"R1">>, <<"R2">>, <<"S1">>}

InitLegacy == Start(InitState(0))

IncrementCounter(threshold_name) ==
    /\ Len(args) < MaxCalls
    /\ Commit([increment_counter(S, threshold_name) EXCEPT
                   !.op = "increment_counter",
                   !.args = Append(args, threshold_name)])

ResetState ==
    /\ Len(args) < MaxCalls
    /\ Commit([reset_state(S) EXCEPT !.op = "reset_state",
                                     !.args = Append(args, NoName)])

\* The process is restarted: StateManager() reads the file again
Restart ==
    Commit([StateManager_load_state(S) EXCEPT !.op = "StateManager_load_state"])

NextLegacy ==
    \/ \E threshold_name \in LegacyNames : IncrementCounter(threshold_name)
    \/ ResetState
    \/ Restart

SpecLegacy == InitLegacy /\ [][NextLegacy]_vars

\* The number of calls at the end of the list that are increment_counter
\* calls for the threshold of the last call
RECURSIVE RunLength(_)
RunLength(calls) ==
    IF calls = <<>> \/ calls[Len(calls)] = NoName THEN 0
    ELSE LET front == SubSeq(calls, 1, Len(calls) - 1)
         IN  IF front # <<>> /\ front[Len(front)] = calls[Len(calls)]
             THEN 1 + RunLength(front)
             ELSE 1

Persisted ==
    args # <<>> => state_file = JsonFile(current_state)

C24_Run ==
    /\ args = << <<"S1">>, <<"R2">>, <<"R2">>, <<"R2">> >>
    /\ get_counter(S) = 3


\* ------------------------------------------------------------------------
\* SpecLoop: the loop of GoldTradingBot.start, one cycle per minute.  The
\* classic levels are computed at 23:03; at 17:00 of the next day (US
\* session, 10 minutes of stabilization) the price breaks R2 at 3443 and
\* holds at 3441.50 for LoopWarmup minutes; the loop is then followed for
\* LoopCycles minutes, after which the API returns no more data.
\* `op` is the loop's position: "sleep", "run_cycle", "stopped".
\* ------------------------------------------------------------------------
LoopCycles == 4
LoopWarmup == 7
LoopStart == MINUTES_PER_DAY + 17 * 60
LoopEnd == LoopStart + 1 + LoopWarmup + LoopCycles
LoopPrices == {3441 * 100 + 50, 3441 * 100 + 75}
LoopFaults == {"none", "thresholds", "no_data"}

RECURSIVE WarmupCycles(_, _)
WarmupCycles(s, n) ==
    IF n = 0 THEN s
    ELSE WarmupCycles(process_current_data([s EXCEPT !.now = @ + 1],
                                           3441 * 100 + 50, NoData), n - 1)

InitLoop ==
    Start([WarmupCycles(
               process_current_data(
                   [process_current_data(InitState(ScenarioCalc), 3400 * 100,
                                         ScenarioBar) EXCEPT !.now = LoopStart],
                   3443 * 100, NoData),
               LoopWarmup)
           EXCEPT !.op = "sleep", !.now = LoopStart + 1 + LoopWarmup])

LoopCycle ==
    /\ op = "sleep"
    /\ \E fault \in (IF now < LoopEnd THEN LoopFaults ELSE LoopFaults \ {"none"}),
          current_price \in LoopPrices :
           Commit([run_cycle(S, fault, current_price, NoData) EXCEPT
                       !.op = "run_cycle"])

\* await asyncio.sleep(60)
LoopSleep ==
    /\ op = "run_cycle"
    /\ Commit([S EXCEPT !.op = start_after_cycle(S),
                        !.now = IF now < LoopEnd THEN now + 1 ELSE now])

\* KeyboardInterrupt: the handler breaks out of the loop
LoopStop ==
    /\ op \in {"sleep", "run_cycle"}
    /\ Commit([S EXCEPT !.op = "stopped"])

NextLoop == LoopCycle \/ LoopSleep \/ LoopStop

\* The event loop runs the coroutine: a cycle that can start does start, and
\* a sleep that can end does end
LoopTick == op = "sleep" /\ op' = "run_cycle"
LoopWait == op = "run_cycle" /\ op' \in {"sleep", "crashed"}

SpecLoop ==
    InitLoop /\ [][NextLoop]_vars /\ WF_op(LoopTick) /\ WF_op(LoopWait)

\* C23: whatever a cycle raises, the loop goes on to its sleep and to the
\* next cycle one minute later; it runs cycles for ever unless it is stopped
\* from outside, which is the only way it ends.
C23_LoopKeepsTicking ==
    /\ [][op = "run_cycle" /\ op' # "stopped" =>
              op' = "sleep" /\ (now < LoopEnd => now' = now + 1)]_vars
    /\ [](op \in {"sleep", "run_cycle", "stopped"})
    /\ (op = "run_cycle" /\ signal \in {"error", "loop_error"})
           ~> (op = "sleep" \/ op = "stopped")
    /\ ([]<>(op = "run_cycle")) \/ <>[](op = "stopped")

\* A cycle whose validation raised inside process_current_data is followed
\* by the sleep of the loop
C23_Witness ==
    /\ op = "sleep"
    /\ signal = "error"
    /\ etat_cassure = VALIDATED
    /\ now > LoopStart + 1 + LoopWarmup

\* A cycle ended by an exception outside process_current_data
C23_LoopError == op = "sleep" /\ signal = "loop_error"


\* ------------------------------------------------------------------------
\* SpecInval: after the 23:03 calculation, one cycle every InvalGap minutes
\* across midnight, the price at 3400 (inside S1-R1) or 3443 (beyond R2 +
\* amplitude); the whole run is shorter than the two hours of the window
\* ------------------------------------------------------------------------
InvalCycles == 7
InvalGap == 15
InvalPrices == {3400 * 100, 3443 * 100}
InvalEnd == ScenarioCalc + InvalCycles * InvalGap

InitInval ==
    Start([process_current_data(InitState(ScenarioCalc), 3400 * 100, ScenarioBar)
           EXCEPT !.op = "init"])

InvalCycle ==
    /\ now < InvalEnd
    /\ \E current_price \in InvalPrices : RunCycle(InvalGap, current_price, NoData)

NextInval == InvalCycle

SpecInval == InitInval /\ [][NextInval]_vars

\* The cycle that ends in the primed state ran the validator on TickPrice
ValidatorRan ==
    /\ op' = "process_current_data"
    /\ price_history' # <<>>
    /\ price_history'[Len(price_history')].timestamp = now'

TickPrice == price_history'[Len(price_history')].price

\* The transitions to INVALIDATED of the two hours before the cycle that the
\* history holds when the cycle starts
StoredInvalidations ==
    Cardinality({i \in 1..Len(historique) :
                    /\ historique[i].type = "breakout_state"
                    /\ historique[i].to = INVALIDATED
                    /\ historique[i].timestamp > now' - NEUTRAL_WINDOW_HOURS * 60})

\* set_breakout_state stores the details of an invalidation in the state and
\* neither the daily reset nor a later PARTIAL removes them: a phase has been
\* invalidated since the run began at 23:03, less than two hours ago
InvalidatedEarlier ==
    /\ raison \in {"retour_range_central", "trop_invalidations"}
    /\ now' < ScenarioCalc + NEUTRAL_WINDOW_HOURS * 60

ReturnTick ==
    /\ ValidatorRan
    /\ etat_cassure \in {PARTIAL, VALIDATED}
    /\ LevelValue(cached_pivots'[pivot_actif'], "S1") <= TickPrice
    /\ TickPrice <= LevelValue(cached_pivots'[pivot_actif'], "R1")

\* C25: a cycle that runs the validator (the phase is not NEUTRAL at step 4),
\* starts in PARTIAL or VALIDATED and has its price inside [S1, R1] of the
\* active levels ends in INVALIDATED, or in NEUTRAL when this is at least the
\* second invalidation within two hours.
C25_ReturnInvalidates ==
    [][ReturnTick =>
           etat_cassure' = IF StoredInvalidations >= 1 \/ InvalidatedEarlier
                           THEN NEUTRAL ELSE INVALIDATED]_vars

\* The same with the invalidations counted in the stored history only
C25_ReturnInvalidatesStored ==
    [][ReturnTick =>
           etat_cassure' = IF StoredInvalidations + 1 >= NEUTRAL_INVALIDATIONS
                           THEN NEUTRAL ELSE INVALIDATED]_vars

\* After midnight, a second return into the range within two hours of the
\* first: the daily reset has emptied the history in between and the phase
\* is INVALIDATED
C25_Witness ==
    /\ op = "process_current_data"
    /\ date = Day(ScenarioCalc) + 1
    /\ now < ScenarioCalc + NEUTRAL_WINDOW_HOURS * 60
    /\ etat_cassure = INVALIDATED
    /\ seuil_stats[ScenarioR2].tentatives = 3
    /\ historique[Len(historique)].to = INVALIDATED
    /\ historique[Len(historique)].timestamp = now
    /\ \A i \in 1..Len(historique) : historique[i].timestamp >= MINUTES_PER_DAY
    /\ Cardinality({i \in 1..Len(historique) : historique[i].to = INVALIDATED}) = 1

\* A second return within two hours on the same day: NEUTRAL
C25_SecondReturnNeutral ==
    /\ op = "process_current_data"
    /\ etat_cassure = NEUTRAL
    /\ raison = "trop_invalidations"
    /\ historique[Len(historique)].timestamp = now
    /\ Cardinality({i \in 1..Len(historique) : historique[i].to = INVALIDATED}) = 2


\* ------------------------------------------------------------------------
\* SpecNeutral: the store from noon on, within one day.  The phase is
\* invalidated up to MaxInvalidations times and the clock moves by
\* NeutralStep minutes, past the window, while the history holds fewer than
\* EarlyEvents events; breakout attempts on R2 are recorded up to the size
\* the history is cut at, and should_go_neutral is asked at any moment
\* ------------------------------------------------------------------------
MaxInvalidations == 2
EarlyEvents == 4
NeutralStep == 150
NeutralStart == 12 * 60
NeutralEnd == NeutralStart + NeutralStep

InitNeutral == Start(InitState(NeutralStart))

\* The transitions to INVALIDATED in a history that are recent at time t
RecentInvalidations(h, t) ==
    Cardinality({i \in 1..Len(h) :
                    /\ h[i].type = "breakout_state"
                    /\ h[i].to = INVALIDATED
                    /\ h[i].timestamp > t - NEUTRAL_WINDOW_HOURS * 60})

Invalidate ==
    /\ RecentInvalidations(historique, now) < MaxInvalidations
    /\ Len(historique) < EarlyEvents
    /\ Commit([set_breakout_state(S, INVALIDATED,
                                  [raison |-> "retour_range_central"])
               EXCEPT !.op = "set_breakout_state", !.args = <<INVALIDATED>>])

NeutralAttempt ==
    /\ get_threshold_reliability(S, ScenarioR2).tentatives < HISTORY_MAX
    /\ Commit([track_breakout_attempt(S, ScenarioR2) EXCEPT
                   !.op = "track_breakout_attempt", !.args = <<ScenarioR2>>])

ShouldGoNeutral ==
    Commit([S EXCEPT !.ret = should_go_neutral(S), !.op = "should_go_neutral",
                     !.args = <<>>])

NeutralClock ==
    /\ now < NeutralEnd
    /\ Len(historique) < EarlyEvents
    /\ Commit([S EXCEPT !.now = now + NeutralStep, !.op = "clock", !.args = <<>>])

NextNeutral ==
    \/ Invalidate
    \/ NeutralAttempt
    \/ ShouldGoNeutral
    \/ NeutralClock

SpecNeutral == InitNeutral /\ [][NextNeutral]_vars

\* C26: should_go_neutral answers by the transitions to INVALIDATED of the
\* last two hours alone: it returns true iff the history holds two of them,
\* every transition to INVALIDATED adds one to that count, and recording
\* another event at the same moment leaves the count as it is.
C26_NeutralByInvalidations ==
    [][/\ op' = "should_go_neutral" =>
              (ret' <=> RecentInvalidations(historique, now)
                            >= NEUTRAL_INVALIDATIONS)
       /\ op' = "set_breakout_state" =>
              RecentInvalidations(historique', now')
                  = RecentInvalidations(historique, now) + 1
       /\ op' = "track_breakout_attempt" =>
              RecentInvalidations(historique', now')
                  = RecentInvalidations(historique, now)]_vars

\* The same while the history stays below the size it is cut at
C26_NeutralWhileUncut ==
    [][Len(historique) < HISTORY_MAX =>
       (/\ op' = "should_go_neutral" =>
               (ret' <=> RecentInvalidations(historique, now)
                             >= NEUTRAL_INVALIDATIONS)
        /\ op' = "set_breakout_state" =>
               RecentInvalidations(historique', now')
                   = RecentInvalidations(historique, now) + 1
        /\ op' = "track_breakout_attempt" =>
               RecentInvalidations(historique', now')
                   = RecentInvalidations(historique, now))]_vars

\* The phase was invalidated at noon, nothing but attempts has been recorded
\* since, the history has been cut and the answer is no
C26_Witness ==
    /\ op = "should_go_neutral"
    /\ ~ret
    /\ now = NeutralStart
    /\ etat_cassure = INVALIDATED
    /\ Len(historique) >= HISTORY_KEEP
    /\ \A i \in 1..Len(historique) : historique[i].type = "breakout_attempt"

\* Two invalidations and other events after them: the answer is yes
C26_StillNeutral ==
    /\ op = "should_go_neutral"
    /\ ret
    /\ RecentInvalidations(historique, now) = NEUTRAL_INVALIDATIONS
    /\ historique[Len(historique)].type = "breakout_attempt"
    /\ Len(historique) > HISTORY_KEEP


\* ------------------------------------------------------------------------
\* Unreliable levels in the bot's cycle (SpecBot)
\* ------------------------------------------------------------------------
\* A level of the active set that is unreliable when the cycle starts and
\* that the cycle's price breaks by more than the amplitude
UnreliableBroken(th) ==
    /\ ~is_threshold_reliable(S, th.nom, MIN_ATTEMPTS, MIN_SCORE)
    /\ IsBroken(th, TickPrice)

ActiveLevels ==
    {cached_pivots'[pivot_actif'][i] : i \in 1..Len(cached_pivots'[pivot_actif'])}

\* C27: a cycle whose price is beyond an unreliable level (attempts >= 3 and
\* score < 50) by more than the amplitude records no attempt for the level,
\* starts no stabilization tracker for it and does not set the phase to
\* PARTIAL.
C27_UnreliableSkipped ==
    [][ValidatorRan =>
          \A th \in ActiveLevels :
              UnreliableBroken(th) =>
                  /\ get_threshold_reliability(S, th.nom).tentatives
                         = seuil_stats'[th.nom].tentatives
                  /\ \A i \in 1..Len(stabilization_tracker') :
                         stabilization_tracker'[i].name = th.nom =>
                             stabilization_tracker'[i].start_time < now'
                  /\ \A i \in 1..Len(historique') :
                         historique'[i].timestamp = now' =>
                             historique'[i].to # PARTIAL]_vars

\* Four cycles in a row at 3443, beyond R2 + amplitude: three attempts were
\* counted, none validated, and the fourth cycle has left the attempts, the
\* tracker and the history as they were
C27_Witness ==
    /\ op = "process_current_data"
    /\ Len(price_history) >= 4
    /\ \A i \in (Len(price_history) - 3)..Len(price_history) :
           price_history[i].price = 3443 * 100
    /\ price_history[Len(price_history)].timestamp = now
    /\ seuil_stats[ScenarioR2].tentatives = MIN_ATTEMPTS
    /\ seuil_stats[ScenarioR2].score < MIN_SCORE
    /\ \A i \in 1..Len(stabilization_tracker) :
           stabilization_tracker[i].start_time = now - BotGap
    /\ \A i \in 1..Len(historique) : historique[i].timestamp < now


\* ------------------------------------------------------------------------
\* The order of the validator's steps in the bot's cycle (SpecBot)
\* ------------------------------------------------------------------------
\* The phases the history records for the cycle that ends in the primed state
PhasesRecorded ==
    {historique'[i].to : i \in {j \in 1..Len(historique') :
                                   /\ historique'[j].type = "breakout_state"
                                   /\ historique'[j].timestamp = now'}}

SignalPhases ==
    Cardinality({i \in 1..Len(historique') :
                    /\ historique'[i].type = "breakout_state"
                    /\ historique'[i].timestamp = now'
                    /\ historique'[i].to \in {PARTIAL, TENSION, VALIDATED}})

OldTrackers == {stabilization_tracker[i] : i \in 1..Len(stabilization_tracker)}

\* C28: check_breakout runs range-return, extreme breakout, tension zone,
\* invalidation and stabilization in that order and returns at the first
\* signal.  The range-return step has run on every cycle of the validator;
\* a cycle that returns the range-return signal has counted no attempt and
\* touched no tracker and no tension touch; a cycle that returns the partial
\* signal has recorded no touch, invalidated and validated nothing and, the
\* tracker it starts aside, left the trackers alone; a cycle that returns
\* the tension signal has invalidated nothing and left the trackers alone;
\* and no cycle records more than one of the phases that come with a signal.
C28_FirstSignalWins ==
    [][(ValidatorRan /\ date' = date) =>
          /\ LET r1 == LevelValue(cached_pivots[pivot_actif], "R1")
                 s1 == LevelValue(cached_pivots[pivot_actif], "S1")
             IN  (in_range_since' # NoTime) <=> (s1 <= TickPrice /\ TickPrice <= r1)
          /\ signal' = "semi_neutral" =>
                 /\ PhasesRecorded = {NEUTRAL}
                 /\ seuil_stats' = seuil_stats
                 /\ touches_tension' = touches_tension
                 /\ stabilization_tracker' = stabilization_tracker
          /\ signal' = "partial" =>
                 /\ PhasesRecorded = {PARTIAL}
                 /\ touches_tension' = touches_tension
                 /\ \A i \in 1..Len(stabilization_tracker') :
                        IF stabilization_tracker'[i].name = seuil_en_cours'
                        THEN /\ stabilization_tracker'[i].start_time = now'
                             /\ Len(stabilization_tracker'[i].price_points) = 1
                        ELSE stabilization_tracker'[i] \in OldTrackers
          /\ signal' = "tension" =>
                 /\ PhasesRecorded \subseteq {TENSION}
                 /\ etat_cassure' = TENSION
                 /\ seuil_stats' = seuil_stats
                 /\ stabilization_tracker' = stabilization_tracker
          /\ SignalPhases <= 1]_vars

\* A cycle beyond R2 + amplitude with a tracker already running: the partial
\* signal is returned and the tracker starts again
C28_Witness ==
    /\ op = "process_current_data"
    /\ signal = "partial"
    /\ seuil_stats[ScenarioR2].tentatives = 2
    /\ Len(stabilization_tracker) = 1
    /\ stabilization_tracker[1].start_time = now
    /\ Len(stabilization_tracker[1].price_points) = 1

\* A cycle that returns the tension signal with a tracker running
C28_TensionWithTracker ==
    /\ op = "process_current_data"
    /\ signal = "tension"
    /\ etat_cassure = TENSION
    /\ stabilization_tracker # <<>>
    /\ stabilization_tracker[1].price_points[
           Len(stabilization_tracker[1].price_points)].timestamp < now


\* ------------------------------------------------------------------------
\* The phase before a validation (SpecBot)
\* ------------------------------------------------------------------------
\* C29: the phase becomes VALIDATED only on a cycle that starts in PARTIAL,
\* never directly from NONE, TENSION, INVALIDATED or NEUTRAL.
C29_ValidatedFromPartial ==
    [][(etat_cassure' = VALIDATED /\ etat_cassure # VALIDATED) =>
           etat_cassure = PARTIAL]_vars



\* ------------------------------------------------------------------------
\* SpecReturn: the levels of SpecScenario, one cycle per minute from 05:00:
\* 3443 twice (the day's first breakout, then the one that leaves the phase
\* PARTIAL), then for ReturnTicks minutes 3420 (inside S1-R1), 3441 (within
\* 1 $ of R2) or 3442, then 3442 or 3443 for ReturnChoices minutes and 3442
\* until ReturnMinutes minutes have passed
\* ------------------------------------------------------------------------
ReturnTicks == 3
ReturnChoices == 3
ReturnMinutes == 20
ReturnEnd == ScenarioStart + 2 + ReturnMinutes

ReturnPrices(t) ==
    IF t <= ScenarioStart + 1 THEN {3443 * 100}
    ELSE IF t <= ScenarioStart + 1 + ReturnTicks
    THEN {3420 * 100, 3441 * 100, 3442 * 100}
    ELSE IF t <= ScenarioStart + 1 + ReturnTicks + ReturnChoices
    THEN {3442 * 100, 3443 * 100}
    ELSE {3442 * 100}

ReturnCycle ==
    /\ now < ReturnEnd
    /\ \E current_price \in ReturnPrices(now + 1) :
           RunCycle(1, current_price, NoData)

NextReturn == ReturnCycle

SpecReturn == InitScenario /\ [][NextReturn]_vars

\* The phases the history records, in order
PhaseLog ==
    LET entries == SelectSeq(historique, LAMBDA e: e.type = "breakout_state")
    IN  [i \in 1..Len(entries) |-> entries[i].to]

\* In SpecBot: the day's first breakout, whose partial signal is followed by
\* the daily reset of the status summary: the tracker goes on, and the phase
\* is validated on a cycle that starts in NONE
C29_ValidatedFromNone ==
    /\ op = "process_current_data"
    /\ ValidatedNow
    /\ etat_cassure = VALIDATED
    /\ PhaseLog = <<VALIDATED>>
    /\ seuil_stats[ScenarioR2].tentatives = 1
    /\ seuil_stats[ScenarioR2].validees = 1

\* Validated on a cycle that starts in TENSION
C29_ValidatedFromTension ==
    /\ ValidatedNow
    /\ Len(PhaseLog) >= 2
    /\ PhaseLog[Len(PhaseLog)] = VALIDATED
    /\ PhaseLog[Len(PhaseLog) - 1] = TENSION

\* Validated on a cycle that starts in INVALIDATED
C29_Witness ==
    /\ ValidatedNow
    /\ Len(PhaseLog) >= 2
    /\ PhaseLog[Len(PhaseLog)] = VALIDATED
    /\ PhaseLog[Len(PhaseLog) - 1] = INVALIDATED
    /\ \A i \in 1..Len(historique) :
           historique[i].to = INVALIDATED => historique[i].timestamp < now


\* ------------------------------------------------------------------------
\* The phase before a tension (SpecBot)
\* ------------------------------------------------------------------------
\* C30: recording tension touches changes the phase to TENSION only when the
\* phase is NONE or already TENSION: a phase of PARTIAL, VALIDATED or
\* INVALIDATED is never overwritten by TENSION.
C30_TensionFromNone ==
    [][etat_cassure' = TENSION => etat_cassure \in {NONE, TENSION}]_vars

\* The third touch of R2 within the window on a cycle that starts in PARTIAL
C30_Witness ==
    /\ op = "process_current_data"
    /\ signal = "tension"
    /\ etat_cassure = TENSION
    /\ Len(PhaseLog) >= 2
    /\ PhaseLog[Len(PhaseLog)] = TENSION
    /\ PhaseLog[Len(PhaseLog) - 1] = PARTIAL
    /\ historique[Len(historique)].type = "tension_detected"
    /\ historique[Len(historique)].timestamp = now
    /\ Cardinality(RecentTouches(ScenarioR2, now)) >= TENSION_TOUCHES

\* The same on a cycle that starts in INVALIDATED
C30_TensionFromInvalidated ==
    /\ signal = "tension"
    /\ etat_cassure = TENSION
    /\ Len(PhaseLog) >= 2
    /\ PhaseLog[Len(PhaseLog)] = TENSION
    /\ PhaseLog[Len(PhaseLog) - 1] = INVALIDATED
    /\ historique[Len(historique)].timestamp = now


\* ------------------------------------------------------------------------
\* The tracker of an invalidated breakout (SpecReturn)
\* ------------------------------------------------------------------------
\* The cycle that ends in the primed state has recorded an invalidation
InvalidatedNow ==
    \E i \in 1..Len(historique') :
        /\ historique'[i].type = "breakout_state"
        /\ historique'[i].to = INVALIDATED
        /\ historique'[i].timestamp = now'

\* C31: when a breakout is invalidated the stabilization tracker of its
\* level is destroyed on the same cycle, so that an invalidated breakout is
\* not validated later unless a new PARTIAL phase has started a new tracker.
C31_InvalidationDropsTracker ==
    [][/\ InvalidatedNow =>
              \A i \in 1..Len(stabilization_tracker') :
                  stabilization_tracker'[i].name # seuil_en_cours
       /\ (etat_cassure' = VALIDATED /\ etat_cassure # VALIDATED) =>
              etat_cassure # INVALIDATED]_vars

\* A cycle has just invalidated the breakout of R2 and the tracker started
\* with it is still in the validator
C31_Witness ==
    /\ op = "process_current_data"
    /\ etat_cassure = INVALIDATED
    /\ raison = "retour_range_central"
    /\ seuil_en_cours = ScenarioR2
    /\ historique # <<>>
    /\ historique[Len(historique)].to = INVALIDATED
    /\ historique[Len(historique)].timestamp = now
    /\ TrackerCount(ScenarioR2) = 1
    /\ \E i \in 1..Len(stabilization_tracker) :
           stabilization_tracker[i].start_time < now


\* ------------------------------------------------------------------------
\* The samples a tracker keeps (SpecInval, SpecBot)
\* ------------------------------------------------------------------------
\* C32: after every cycle no stabilization tracker holds a price sample
\* older than the lookback window of the session-aware validator, the
\* stabilization time plus 10 minutes.
C32_SamplesWithinWindow ==
    op = "process_current_data" =>
        \A i \in 1..Len(stabilization_tracker) :
            \A j \in 1..Len(stabilization_tracker[i].price_points) :
                stabilization_tracker[i].price_points[j].timestamp
                    > now - (get_adapted_stabilization_time(now) + 10)

\* The same for the cycles on which the stabilization step has run, the
\* tracker of the validated level, if any, being gone; and the samples of a
\* tracker are never more than the minutes of the longest window
C32_SamplesAfterStabilization ==
    /\ (/\ op = "process_current_data"
        /\ signal \in {"none", "validated", "error"}
        /\ price_history # <<>>
        /\ price_history[Len(price_history)].timestamp = now) =>
           \A i \in 1..Len(stabilization_tracker) :
               \A j \in 1..Len(stabilization_tracker[i].price_points) :
                   stabilization_tracker[i].price_points[j].timestamp
                       > now - (get_adapted_stabilization_time(now) + 10)
    /\ \A i \in 1..Len(stabilization_tracker) :
           Len(stabilization_tracker[i].price_points)
               <= session_profiles.asia.stabilization_time + 10

\* A blocked cycle in NEUTRAL, the validator not called: the tracker still
\* holds the sample of its start, older than the window
C32_Witness ==
    /\ op = "process_current_data"
    /\ signal = "blocked"
    /\ etat_cassure = NEUTRAL
    /\ stabilization_tracker # <<>>
    /\ stabilization_tracker[1].price_points[1].timestamp
           <= now - (get_adapted_stabilization_time(now) + 10)


\* ------------------------------------------------------------------------
\* SpecHistory: the events of the store over two days.  Attempts on R2 are
\* recorded until the history has been cut; phases are set, the pivot is
\* switched and the clock moves by a minute while the history holds fewer
\* than HistoryEvents events; the next day begins then or after the cut, and
\* the budget is asked at any moment
\* ------------------------------------------------------------------------
HistoryAttempts == HISTORY_MAX + 2
HistoryEvents == 2
HistoryStart == 12 * 60
HistoryEnd == HistoryStart + 1

InitHistory == Start(InitState(HistoryStart))

HistoryAttempt ==
    /\ get_threshold_reliability(S, ScenarioR2).tentatives < HistoryAttempts
    /\ Commit([track_breakout_attempt(S, ScenarioR2) EXCEPT
                   !.op = "track_breakout_attempt", !.args = <<ScenarioR2>>])

HistoryPhase ==
    /\ Len(historique) < HistoryEvents
    /\ Commit([set_breakout_state(S, PARTIAL, <<>>) EXCEPT
                   !.op = "set_breakout_state", !.args = <<PARTIAL>>])

HistorySwitch ==
    /\ Len(historique) < HistoryEvents \/ date # Day(now)
    /\ Commit([switch_to_pivot(S, ASIA) EXCEPT !.op = "switch_to_pivot",
                                               !.args = <<ASIA>>])

HistoryCanSwitch ==
    Commit([can_switch_pivot(S) EXCEPT !.op = "can_switch_pivot", !.args = <<>>])

HistoryClock ==
    /\ now < HistoryEnd
    /\ Len(historique) < HistoryEvents
    /\ Commit([S EXCEPT !.now = now + 1, !.op = "clock", !.args = <<>>])

HistoryNextDay ==
    /\ Day(now) = 0
    /\ \/ Len(historique) < HistoryEvents
       \/ get_threshold_reliability(S, ScenarioR2).tentatives > HISTORY_MAX
    /\ Commit([S EXCEPT !.now = MINUTES_PER_DAY, !.op = "clock", !.args = <<>>])

NextHistory ==
    \/ HistoryAttempt
    \/ HistoryPhase
    \/ HistorySwitch
    \/ HistoryCanSwitch
    \/ HistoryClock
    \/ HistoryNextDay

SpecHistory == InitHistory /\ [][NextHistory]_vars

\* The log h with the event e at its end, cut to its newest HISTORY_KEEP
\* events when that makes more than HISTORY_MAX
Logged(h, e) ==
    LET a == h \o <<e>>
    IN  IF Len(a) > HISTORY_MAX
        THEN [i \in 1..HISTORY_KEEP |-> a[Len(a) - HISTORY_KEEP + i]]
        ELSE a

\* h2 is h1, or h1 with one event logged
LoggedOnce(h1, h2) ==
    \/ h2 = h1
    \/ /\ h2 # <<>>
       /\ h2 = Logged(h1, h2[Len(h2)])
       /\ h2[Len(h2)].timestamp >= 0

\* C33 as stated: the history never holds more than HISTORY_MAX events, and
\* every call leaves it as it was or with one event more at its end, cut to
\* the newest HISTORY_KEEP events when the append makes more than
\* HISTORY_MAX.
C33_HistoryAppendOnly ==
    [][/\ Len(historique') <= HISTORY_MAX
       /\ LoggedOnce(historique, historique')]_vars

\* C33: the history never holds more than HISTORY_MAX events, and every call
\* leaves it as it was or with one event more at its end, cut to the newest
\* HISTORY_KEEP events when the append makes more than HISTORY_MAX; the first
\* budget check of a new UTC day empties it before that.
C33_HistoryAppendOrReset ==
    [][/\ Len(historique') <= HISTORY_MAX
       /\ date' = date => LoggedOnce(historique, historique')
       /\ date' # date =>
              /\ date # Day(now')
              /\ op' \in {"switch_to_pivot", "can_switch_pivot"}
              /\ LoggedOnce(<<>>, historique')
       /\ op' = "track_breakout_attempt" =>
              /\ historique' # historique
              /\ historique'[Len(historique')] =
                     [timestamp |-> now', type |-> "breakout_attempt", to |-> ""]]_vars

\* The append that made 101 events: the newest 50 are kept, the phase set
\* first is gone
C33_Witness ==
    /\ op = "track_breakout_attempt"
    /\ Len(historique) = HISTORY_KEEP
    /\ get_threshold_reliability(S, ScenarioR2).tentatives > HISTORY_KEEP
    /\ etat_cassure = PARTIAL
    /\ \A i \in 1..Len(historique) : historique[i].type = "breakout_attempt"

\* The first budget check of the second day: the events of the first are gone
C33_HistoryEmptied ==
    /\ op = "can_switch_pivot"
    /\ date = 1
    /\ historique = <<>>
    /\ get_threshold_reliability(S, ScenarioR2).tentatives > 0


\* ------------------------------------------------------------------------
\* SpecRestart: the process in the hour of the classic calculation, one cycle
\* every RestartGap minutes from 23:03, the API returning the bar or no data
\* for a calculation that is due; between two cycles the process may be
\* stopped and started again over the files it left
\* ------------------------------------------------------------------------
RestartCycles == 4
RestartGap == 10
RestartPrices == {3400 * 100, 3443 * 100}
RestartBars == {ScenarioBar, NoData}
RestartEnd == ScenarioCalc + RestartCycles * RestartGap

\* GoldTradingBot.__init__: both stores are loaded from their files; the
\* session manager's cache and markers and the validator's buffers start empty
GoldTradingBot_init(s) ==
    StateManager_load_state(
        load_state([InitState(s.now) EXCEPT
                        !.pivot_state_file = s.pivot_state_file,
                        !.state_file = s.state_file]))

InitRestart ==
    Start([process_current_data(InitState(ScenarioCalc), 3400 * 100, ScenarioBar)
           EXCEPT !.op = "init"])

RestartCycle ==
    /\ now < RestartEnd
    /\ \E current_price \in RestartPrices, data \in RestartBars :
           Commit([process_current_data([S EXCEPT !.now = now + RestartGap],
                                        current_price, data)
                   EXCEPT !.op = "process_current_data",
                          !.args = <<current_price, data>>])

RestartBot ==
    /\ now < RestartEnd
    /\ op # "GoldTradingBot_init"
    /\ Commit([GoldTradingBot_init(S) EXCEPT !.op = "GoldTradingBot_init",
                                             !.args = <<>>])

NextRestart == RestartCycle \/ RestartBot

SpecRestart == InitRestart /\ [][NextRestart]_vars


\* ------------------------------------------------------------------------
\* SpecEvening: the detector's steps over one day, at 03:03, at the three
\* calculation moments and at 00:03 of the next day, the three level sets
\* cached: _check_pivot_calculations with the bar or no data returned,
\* _check_pivot_switch for a validated level of the active set, and the
\* phase set to PARTIAL by the validator
\* ------------------------------------------------------------------------
EveningBar == [high |-> 3430 * 100, low |-> 3390 * 100, close |-> 3410 * 100]
EveningBars == {ScenarioBar, NoData}
EveningLevels == {"R1", "R2"}
EveningStart == MINUTES_PER_DAY + (ASIA_CALC_HOUR - 1) * 60 + CALC_MINUTE_OFFSET
EveningEnd == 2 * MINUTES_PER_DAY + CALC_MINUTE_OFFSET

InitEvening ==
    Start(calculate_session_pivots(
              calculate_session_pivots(
                  calculate_session_pivots(InitState(EveningStart),
                                           CLASSIC, ScenarioBar),
                  ASIA, EveningBar),
              EUROPE, EveningBar))

CheckPivotCalculations(data) ==
    Commit([check_pivot_calculations(S, data) EXCEPT
                !.op = "check_pivot_calculations", !.args = <<data>>])

EveningSwitch(level) ==
    LET threshold_name == <<level, pivot_actif>>
    IN  Commit([check_pivot_switch(S, threshold_name) EXCEPT
                    !.op = "check_pivot_switch", !.args = <<threshold_name>>])

EveningPhase ==
    /\ etat_cassure # PARTIAL
    /\ Commit([set_breakout_state(S, PARTIAL, <<>>) EXCEPT
                   !.op = "set_breakout_state", !.args = <<PARTIAL>>])

\* The minutes to the next moment
EveningGap(t) ==
    IF Hour(t) = ASIA_CALC_HOUR THEN (EUROPE_CALC_HOUR - ASIA_CALC_HOUR) * 60
    ELSE IF Hour(t) = EUROPE_CALC_HOUR
    THEN (CLASSIC_CALC_HOUR - EUROPE_CALC_HOUR) * 60
    ELSE 60

EveningClock ==
    /\ now < EveningEnd
    /\ Commit([S EXCEPT !.now = now + EveningGap(now), !.op = "clock",
                        !.args = <<>>])

NextEvening ==
    \/ \E data \in EveningBars : CheckPivotCalculations(data)
    \/ \E level \in EveningLevels : EveningSwitch(level)
    \/ EveningPhase
    \/ EveningClock

SpecEvening == InitEvening /\ [][NextEvening]_vars

\* The call computes the classic levels
ClassicJustComputed ==
    /\ op' = "check_pivot_calculations"
    /\ should_calculate_pivots(S) = CLASSIC
    /\ session_pivots(CLASSIC, args'[1]) # <<>>

\* C34: after a call of _check_pivot_calculations that has computed the
\* classic levels, the active pivot is classic and the phase is NONE.
C34_ClassicSwitch ==
    [][ClassicJustComputed =>
           /\ pivot_actif' = CLASSIC
           /\ etat_cassure' = NONE]_vars

\* The same for a calculation made with the day's switches not used up: the
\* switch is counted and logged
C34_ClassicSwitchInBudget ==
    [][(/\ ClassicJustComputed
        /\ date = Day(now) => switches_count < MAX_DAILY_SWITCHES) =>
           /\ pivot_actif' = CLASSIC
           /\ etat_cassure' = NONE
           /\ switches_count' = (IF date = Day(now) THEN switches_count ELSE 0) + 1
           /\ historique'[Len(historique')] =
                  [timestamp |-> now, type |-> "pivot_switch", to |-> ""]
           /\ get_active_thresholds(S') = session_pivots(CLASSIC, args'[1])]_vars

\* 23:03 after a switch to asia and a switch to europe on the same day: the
\* classic levels are computed, the europe levels stay the active ones and
\* the phase stays PARTIAL
C34_Witness ==
    /\ op = "check_pivot_calculations"
    /\ args = <<ScenarioBar>>
    /\ Hour(now) = CLASSIC_CALC_HOUR
    /\ <<Day(now), CLASSIC>> \in last_calculation_times
    /\ date = Day(now)
    /\ switches_count = MAX_DAILY_SWITCHES
    /\ pivot_actif = EUROPE
    /\ etat_cassure = PARTIAL
    /\ historique[Len(historique)].timestamp < now


\* ------------------------------------------------------------------------
\* SpecHoldFair: the scenario with the price held beyond R2 + amplitude: one
\* cycle per minute from 05:00, 3438, then 3443 for the stabilization time
\* of the session and one minute (the breakout cycle and ScenarioMinutes
\* more), then HoldExtra minutes at 3420, at 3442 or at 3443; args keeps
\* the price of the last cycle
\* ------------------------------------------------------------------------
HoldExtra == 40
HoldUntil == ScenarioStart + 1 + ScenarioMinutes
HoldEnd == HoldUntil + HoldExtra

HoldPrices(t) ==
    IF t = ScenarioStart THEN {3438 * 100}
    ELSE IF t <= HoldUntil THEN {3443 * 100}
    ELSE IF t = HoldUntil + 1 THEN {3420 * 100, 3442 * 100, 3443 * 100}
    ELSE {args[1]}

HoldCycle ==
    /\ now < HoldEnd
    /\ \E current_price \in HoldPrices(now + 1) :
           Commit([process_current_data([S EXCEPT !.now = now + 1],
                                        current_price, NoData)
                   EXCEPT !.op = "process_current_data",
                          !.args = <<current_price>>])

NextHold == HoldCycle

\* The main loop runs the next cycle a minute later
HoldClock == now < HoldEnd /\ now' = now + 1

SpecHoldFair == InitScenario /\ [][NextHold]_vars /\ WF_now(HoldClock)

\* The breakout of 05:01 has been held for the stabilization time
HeldLongEnough ==
    /\ now = HoldUntil
    /\ \A i \in 1..Len(price_history) :
           price_history[i].timestamp > ScenarioStart =>
               price_history[i].price > 3440 * 100 + BREAKOUT_AMPLITUDE

\* C35: once the price has stayed beyond R2 + amplitude for the stabilization
\* time after the partial breakout, the phase becomes VALIDATED.
C35_HeldValidates == HeldLongEnough ~> etat_cassure = VALIDATED

\* The tracker started by the breakout is the one that is evaluated: its
\* start time is the time of the first cycle beyond the level
C35_TrackerStartKept ==
    \A i \in 1..Len(stabilization_tracker) :
        stabilization_tracker[i].start_time <= ScenarioStart + 1

\* With the price held until the tracker that the last counted cycle started
\* is as old as the stabilization time, the phase becomes VALIDATED
C35_HeldLongerValidates ==
    (/\ now = HoldUntil + 2
     /\ \A i \in 1..Len(price_history) :
            price_history[i].timestamp > ScenarioStart =>
                price_history[i].price >= 3440 * 100 + BREAKOUT_AMPLITUDE)
        => etat_cassure = VALIDATED

\* The end of the behaviour in which the price returns to 3420 after the
\* hold: the phase is NEUTRAL for the sustained return, the tracker has been
\* removed and no success has been counted
C35_NeverValidated ==
    /\ now = HoldEnd
    /\ args = <<3420 * 100>>
    /\ etat_cassure = NEUTRAL
    /\ raison = "retour_durable_range"
    /\ stabilization_tracker = <<>>
    /\ seuil_stats[ScenarioR2].validees = 0

\* The price has been held for the stabilization time: the phase is PARTIAL
\* and the tracker was started again on the third cycle beyond the level
C35_Witness ==
    /\ HeldLongEnough
    /\ etat_cassure = PARTIAL
    /\ seuil_en_cours = ScenarioR2
    /\ TrackerCount(ScenarioR2) = 1
    /\ \A i \in 1..Len(stabilization_tracker) :
           stabilization_tracker[i].start_time = ScenarioStart + 3



\* ------------------------------------------------------------------------
\* The attempts counted for one breakout (SpecScenario, SpecBot)
\* ------------------------------------------------------------------------
\* The cycle that ends in the primed state continues a breakout of the level:
\* the phase was and stays PARTIAL for it, and the price of the cycle before
\* and the price of this cycle are both beyond it by more than the amplitude
EpisodeContinues(th) ==
    /\ ValidatorRan
    /\ etat_cassure = PARTIAL /\ seuil_en_cours = th.nom
    /\ etat_cassure' = PARTIAL /\ seuil_en_cours' = th.nom
    /\ price_history # <<>>
    /\ IsBroken(th, price_history[Len(price_history)].price)
    /\ IsBroken(th, TickPrice)

\* C36: a cycle that continues a breakout of a level leaves the level's
\* attempts as they were: the breakout was counted on its first cycle.
C36_OneAttemptPerEpisode ==
    [][\A th \in ActiveLevels :
           EpisodeContinues(th) =>
               seuil_stats'[th.nom].tentatives = seuil_stats[th.nom].tentatives]_vars

\* What is counted instead: every cycle that continues a breakout of a level
\* that is still held reliable adds an attempt, a cycle on an unreliable level
\* adds none
C36_AttemptPerCycle ==
    [][\A th \in ActiveLevels :
           EpisodeContinues(th) =>
               seuil_stats'[th.nom].tentatives =
                   seuil_stats[th.nom].tentatives
                       + (IF is_threshold_reliable(S, th.nom, MIN_ATTEMPTS, MIN_SCORE)
                          THEN 1 ELSE 0)]_vars

\* The second cycle in a row at 3443: the phase is PARTIAL for R2 as before
\* and a second attempt has been counted
C36_Witness ==
    /\ op = "process_current_data"
    /\ etat_cassure = PARTIAL
    /\ seuil_en_cours = ScenarioR2
    /\ Len(price_history) >= 2
    /\ price_history[Len(price_history)].timestamp = now
    /\ price_history[Len(price_history)].price = 3443 * 100
    /\ price_history[Len(price_history) - 1].price = 3443 * 100
    /\ seuil_stats[ScenarioR2].tentatives = 2
    /\ seuil_stats[ScenarioR2].validees = 0
    /\ Cardinality({i \in 1..Len(historique) : historique[i].to = PARTIAL}) = 2



\* ------------------------------------------------------------------------
\* SpecReentry: the bot around midnight, one cycle every ReentryGap minutes
\* after the 23:03 calculation, the price inside S1-R1 (3400, 3410) or
\* beyond R2 (3443); args keeps the price of the last cycle
\* ------------------------------------------------------------------------
ReentryCycles == 5
ReentryGap == 30
ReentryPrices == {3400 * 100, 3410 * 100, 3443 * 100}
ReentryEnd == ScenarioCalc + ReentryCycles * ReentryGap

ReentryCycle ==
    /\ now < ReentryEnd
    /\ \E current_price \in ReentryPrices :
           Commit([process_current_data([S EXCEPT !.now = now + ReentryGap],
                                        current_price, NoData)
                   EXCEPT !.op = "process_current_data",
                          !.args = <<current_price>>])

NextReentry == ReentryCycle

SpecReentry == InitDay /\ [][NextReentry]_vars

\* The cycle that has just ended was blocked in NEUTRAL and its status
\* summary made the daily reset: the phase has left NEUTRAL
LeftNeutral ==
    /\ op = "process_current_data"
    /\ signal = "blocked"
    /\ etat_cassure = NONE

InRange(current_price) ==
    /\ LevelValue(cached_pivots[pivot_actif], "S1") <= current_price
    /\ current_price <= LevelValue(cached_pivots[pivot_actif], "R1")

\* The cycle that ends in the primed state sets NEUTRAL for a sustained
\* return into the range
RangeNeutralNow ==
    /\ op' = "process_current_data"
    /\ signal' = "semi_neutral"
    /\ raison' = "retour_durable_range"

\* C37: the cycle that follows the one on which the phase left NEUTRAL does
\* not set NEUTRAL for a sustained return: the 30 minutes inside [S1, R1]
\* are counted from the first cycle after NEUTRAL, not from a marker set
\* earlier, whether the blocked cycle's price was outside the range or not.
C37_FreshInterval ==
    [][LeftNeutral => ~RangeNeutralNow]_vars

\* The part of C37 about the marker: when the phase has left NEUTRAL the
\* marker is empty or not older than the cycle on which it left
C37_MarkerNotKept ==
    LeftNeutral => in_range_since \in {NoTime, now}

\* What the code does instead: a sustained return is signalled whenever the
\* validator runs with the price in range and a marker at least 30 minutes
\* old, whatever happened since the marker was set
C37_MarkerDecides ==
    [][(/\ ValidatorRan
        /\ InRange(args'[1])
        /\ in_range_since # NoTime
        /\ now' - in_range_since >= RANGE_RETURN_MINUTES) => RangeNeutralNow]_vars

\* 00:33 of the new day, in range: NEUTRAL for a sustained return by the
\* marker of 23:03, on the first cycle after the phase left NEUTRAL
C37_Witness ==
    /\ op = "process_current_data"
    /\ args = <<3400 * 100>>
    /\ etat_cassure = NEUTRAL
    /\ raison = "retour_durable_range"
    /\ now = MINUTES_PER_DAY + CALC_MINUTE_OFFSET + ReentryGap
    /\ date = Day(now)
    /\ in_range_since = ScenarioCalc
    /\ signal = "semi_neutral"
    /\ historique = <<[timestamp |-> now, type |-> "breakout_state", to |-> NEUTRAL]>>

\* The blocked cycle of 00:03 with the price beyond R2: the phase has left
\* NEUTRAL and the marker of 23:03 is still stored
C37_LeftWithMarker ==
    /\ LeftNeutral
    /\ args = <<3443 * 100>>
    /\ now = MINUTES_PER_DAY + CALC_MINUTE_OFFSET
    /\ in_range_since = ScenarioCalc



\* ------------------------------------------------------------------------
\* The phase PARTIAL and the validator's trackers (SpecInval, SpecRestart)
\* ------------------------------------------------------------------------
\* C38: whenever the phase is PARTIAL for a level, the validator holds a
\* stabilization tracker for that level.
C38_PartialHasTracker ==
    (etat_cassure = PARTIAL /\ seuil_en_cours # NoName) =>
        TrackerCount(seuil_en_cours) >= 1


\* What holds: the cycle that signals a partial breakout leaves a tracker for
\* the level, started on that cycle
C38_PartialStartsTracker ==
    [][(op' = "process_current_data" /\ signal' = "partial") =>
           \E i \in 1..Len(stabilization_tracker') :
               /\ stabilization_tracker'[i].name = seuil_en_cours'
               /\ stabilization_tracker'[i].start_time = now']_vars

\* The process started again after a partial breakout: the phase read from
\* the file is PARTIAL for R2 and the validator has no tracker
C38_Witness ==
    /\ op = "GoldTradingBot_init"
    /\ etat_cassure = PARTIAL
    /\ seuil_en_cours = ScenarioR2
    /\ pivot_state_file.json.etat_cassure = PARTIAL
    /\ stabilization_tracker = <<>>
    /\ price_history = <<>>

\* A tracker removed after 30 minutes: the cycle has left the phase PARTIAL
\* for R2 and no tracker
C38_TimedOut ==
    /\ op = "process_current_data"
    /\ etat_cassure = PARTIAL
    /\ seuil_en_cours = ScenarioR2
    /\ stabilization_tracker = <<>>
    /\ price_history # <<>>
    /\ price_history[Len(price_history)].timestamp = now



\* ------------------------------------------------------------------------
\* The results counted for a level (SpecInval, SpecBot, SpecReturn)
\* ------------------------------------------------------------------------
\* C39: a cycle that sets the phase to INVALIDATED adds one to the
\* invalidated count of the level in seuil_en_cours, and for every level
\* validated + invalidated is at most the attempts.
C39_InvalidationRecorded ==
    [][/\ (InvalidatedNow /\ seuil_en_cours' \in DOMAIN seuil_stats) =>
              seuil_stats'[seuil_en_cours'].invalidees
                  = seuil_stats[seuil_en_cours'].invalidees + 1
       /\ \A n \in DOMAIN seuil_stats' :
              seuil_stats'[n].validees + seuil_stats'[n].invalidees
                  <= seuil_stats'[n].tentatives]_vars

\* What holds: no failure is ever counted, and the validated attempts are at
\* most the attempts
C39_NoFailureCounted ==
    \A n \in DOMAIN seuil_stats :
        /\ seuil_stats[n].invalidees = 0
        /\ seuil_stats[n].validees <= seuil_stats[n].tentatives

\* The breakout of R2 invalidated by the return into the range: one attempt,
\* no success and no failure counted
C39_Witness ==
    /\ op = "process_current_data"
    /\ etat_cassure = INVALIDATED
    /\ raison = "retour_range_central"
    /\ seuil_en_cours = ScenarioR2
    /\ historique[Len(historique)].to = INVALIDATED
    /\ historique[Len(historique)].timestamp = now
    /\ seuil_stats[ScenarioR2].tentatives = 1
    /\ seuil_stats[ScenarioR2].validees = 0
    /\ seuil_stats[ScenarioR2].invalidees = 0



\* ------------------------------------------------------------------------
\* SpecRetry: a process started before the classic calculation with no
\* levels cached, one cycle every RetryGap minutes from 23:03; the API
\* returns the daily bar or nothing.  args keeps the price and the bar
\* ------------------------------------------------------------------------
RetryCycles == 5
RetryGap == 10
RetryPrices == {3400 * 100, 3443 * 100}
RetryBars == {ScenarioBar, NoData}
RetryEnd == ScenarioCalc + (RetryCycles - 1) * RetryGap

InitRetry == Start(InitState(ScenarioCalc - RetryGap))

RetryCycle ==
    /\ now < RetryEnd
    /\ \E current_price \in RetryPrices, data \in RetryBars :
           Commit([process_current_data([S EXCEPT !.now = now + RetryGap],
                                        current_price, data)
                   EXCEPT !.op = "process_current_data",
                          !.args = <<current_price, data>>])

NextRetry == RetryCycle

SpecRetry == InitRetry /\ [][NextRetry]_vars

\* The cycle that ends in the primed state runs in the classic computation
\* hour, from minute 3 on, with the daily bar available
ClassicDataAvailable ==
    /\ op' = "process_current_data"
    /\ Hour(now') = CLASSIC_CALC_HOUR
    /\ Minute(now') >= CALC_MINUTE_OFFSET
    /\ session_pivots(CLASSIC, args'[2]) # <<>>

\* C40: a cycle of the classic computation hour on which the bar is
\* available leaves the classic levels cached, also when an earlier cycle of
\* the hour found no data.
C40_RetryAfterFailure ==
    [][ClassicDataAvailable => cached_pivots'[CLASSIC] # <<>>]_vars

\* What the code does: the first cycle of the hour writes the marker whatever
\* the calculation gives, and the cache changes only on a cycle that starts
\* without the day's marker
C40_MarkerBlocks ==
    [][/\ (/\ op' = "process_current_data"
           /\ Hour(now') = CLASSIC_CALC_HOUR
           /\ Minute(now') >= CALC_MINUTE_OFFSET) =>
              <<Day(now'), CLASSIC>> \in last_calculation_times'
       /\ <<Day(now'), CLASSIC>> \in last_calculation_times =>
              cached_pivots' = cached_pivots
       /\ (ClassicDataAvailable /\ <<Day(now'), CLASSIC>> \notin last_calculation_times)
              => cached_pivots'[CLASSIC] = session_pivots(CLASSIC, args'[2])]_vars

\* 23:13 with the bar available after a cycle at 23:03 without data: the
\* marker is set and no levels are cached
C40_Witness ==
    /\ op = "process_current_data"
    /\ args[2] = ScenarioBar
    /\ now = ScenarioCalc + RetryGap
    /\ <<Day(now), CLASSIC>> \in last_calculation_times
    /\ cached_pivots[CLASSIC] = <<>>
    /\ get_active_thresholds(S) = <<>>
    /\ signal = "none"

=============================================================================
